---- MODULE Spec2Model ----
(***************************************************************************)
(* Riichi Mahjong hand evaluation: tile codec (tiles.py), shanten engine   *)
(* (shanten.py), agari tester and wait enumerator (tenpai.py) and the      *)
(* decomposition engine (scoring.py).                                      *)
(*                                                                         *)
(* A tile token is a sequence of one-character strings (<<"5","m">>,       *)
(* <<"E">>), a text is a sequence of characters, a count vector is a       *)
(* function 0..33 -> Nat.  A raised ValueError is the record               *)
(* [ok |-> FALSE, ...]; a normal return is [ok |-> TRUE, val |-> ...].     *)
(***************************************************************************)
EXTENDS Integers, Sequences, FiniteSets, TLC

Min2(a, b) == IF a <= b THEN a ELSE b
Max2(a, b) == IF a >= b THEN a ELSE b

Ok(v) == [ok |-> TRUE, val |-> v]
Err(kind) == [ok |-> FALSE, val |-> kind]

\* a result slot nothing has been written to yet
NotEvaluated == Err("not evaluated")

(***************************************************************************)
(* tiles.py                                                                *)
(***************************************************************************)
NumTiles == 34
Indices == 0 .. (NumTiles - 1)

DigitChars == <<"1", "2", "3", "4", "5", "6", "7", "8", "9">>
SuitOffsets == << <<0, "m">>, <<9, "p">>, <<18, "s">> >>
HONOR_NAMES == <<"E", "S", "W", "N", "P", "F", "C">>

\* TileEntries with the honors placed from 26 on (26 + i in place of 27 + i)
TileEntries_honors26 ==
    { << <<DigitChars[n], SuitOffsets[k][2]>>, SuitOffsets[k][1] + (n - 1) >> :
         n \in 1..9, k \in 1..3 }
    \cup { << <<HONOR_NAMES[i]>>, 26 + (i - 1) >> : i \in 1..7 }

\* the (key, value) pairs the two module-level loops put into TILE_INDICES
TileEntries ==
    { << <<DigitChars[n], SuitOffsets[k][2]>>, SuitOffsets[k][1] + (n - 1) >> :
         n \in 1..9, k \in 1..3 }
    \cup { << <<HONOR_NAMES[i]>>, 27 + (i - 1) >> : i \in 1..7 }

TILE_INDICES ==
    [t \in {e[1] : e \in TileEntries} |-> (CHOOSE e \in TileEntries : e[1] = t)[2]]

_INDEX_TO_TILE ==
    [v \in Indices |->
        IF \E k \in DOMAIN TILE_INDICES : TILE_INDICES[k] = v
        THEN CHOOSE k \in DOMAIN TILE_INDICES : TILE_INDICES[k] = v
        ELSE <<>>]

TERMINAL_HONOR_INDICES == <<0, 8, 9, 17, 18, 26, 27, 28, 29, 30, 31, 32, 33>>

\* tokens produced by str.split() carry no whitespace, so strip() is the identity on them
normalize_tile(tile) ==
    IF Len(tile) = 0 THEN Err("Empty tile token.")
    ELSE IF Len(tile) = 2 /\ tile[1] = "0" /\ tile[2] \in {"m", "p", "s"}
         THEN Ok(<<"5", tile[2]>>)
         ELSE Ok(tile)

tile_to_index(tile) ==
    LET t == normalize_tile(tile)
    IN  IF ~t.ok THEN t
        ELSE IF t.val \in DOMAIN TILE_INDICES THEN Ok(TILE_INDICES[t.val])
             ELSE Err("Unknown tile token")

index_to_tile(idx) ==
    IF ~(0 <= idx /\ idx < 34) THEN Err("Tile index out of range")
    ELSE Ok(_INDEX_TO_TILE[idx])

IsSpace(ch) == ch \in {" ", "\t", "\n"}

\* text.replace(",", " ")
ReplaceCommas(text) == [k \in 1..Len(text) |-> IF text[k] = "," THEN " " ELSE text[k]]

\* str.split(): maximal runs of non-whitespace characters, in order
RECURSIVE SplitFrom(_, _, _)
SplitFrom(text, k, cur) ==
    IF k > Len(text)
    THEN (IF cur = <<>> THEN <<>> ELSE <<cur>>)
    ELSE IF IsSpace(text[k])
         THEN (IF cur = <<>> THEN <<>> ELSE <<cur>>) \o SplitFrom(text, k + 1, <<>>)
         ELSE SplitFrom(text, k + 1, Append(cur, text[k]))

Split(text) == SplitFrom(text, 1, <<>>)

RECURSIVE NormalizeAll(_)
NormalizeAll(tokens) ==
    IF tokens = <<>> THEN Ok(<<>>)
    ELSE LET h == normalize_tile(Head(tokens))
         IN  IF ~h.ok THEN h
             ELSE LET r == NormalizeAll(Tail(tokens))
                  IN  IF ~r.ok THEN r ELSE Ok(<<h.val>> \o r.val)

parse_tiles(text) ==
    LET tokens == SelectSeq(Split(ReplaceCommas(text)), LAMBDA tok : tok # <<>>)
    IN  NormalizeAll(tokens)

ZeroCounts == [i \in Indices |-> 0]

RECURSIVE tiles_to_counts_from(_, _)
tiles_to_counts_from(tiles, counts) ==
    IF tiles = <<>> THEN Ok(counts)
    ELSE LET ix == tile_to_index(Head(tiles))
         IN  IF ~ix.ok THEN ix
             ELSE tiles_to_counts_from(Tail(tiles), [counts EXCEPT ![ix.val] = @ + 1])

tiles_to_counts(tiles) == tiles_to_counts_from(tiles, ZeroCounts)

(***************************************************************************)
(* shared helpers on count vectors                                         *)
(***************************************************************************)
\* sum(c[lo..hi]), halving the range so that the evaluation stays shallow
RECURSIVE SumFrom(_, _, _)
SumFrom(c, lo, hi) ==
    IF lo > hi THEN 0
    ELSE IF lo = hi THEN c[lo]
         ELSE LET mid == (lo + hi) \div 2
              IN  SumFrom(c, lo, mid) + SumFrom(c, mid + 1, hi)

\* sum(counts)
_total_tiles(counts) == SumFrom(counts, 0, 33)

\* [x] * n
Repeat(x, n) == [k \in 1..n |-> x]

SetMin(S) == CHOOSE x \in S : \A y \in S : x <= y

\* next((idx for idx, c in enumerate(counts) if c), -1) over slots lo..hi
FirstNonZero(c, lo, hi) ==
    LET nz == {k \in lo..hi : c[k] # 0}
    IN  IF nz = {} THEN -1 ELSE SetMin(nz)

(***************************************************************************)
(* shanten.py                                                              *)
(***************************************************************************)
shanten_chiitoitsu(counts) ==
    LET pairs == Min2(SumFrom([i \in Indices |-> counts[i] \div 2], 0, 33), 7)
        unique == Cardinality({i \in Indices : counts[i] > 0})
        need_unique == Max2(0, 7 - unique)
    IN  6 - pairs + need_unique

shanten_kokushi(counts) ==
    LET unique == Cardinality({k \in 1..13 : counts[TERMINAL_HONOR_INDICES[k]] > 0})
        has_pair == \E k \in 1..13 : counts[TERMINAL_HONOR_INDICES[k]] >= 2
    IN  13 - unique - (IF has_pair THEN 1 ELSE 0)

\* sh of one search node
NodeShanten(mentsu, taatsu, pair_used) ==
    LET taatsu_slots == Max2(0, 4 - mentsu)
        effective_taatsu == Min2(taatsu, taatsu_slots)
    IN  8 - 2 * mentsu - effective_taatsu - pair_used

\* dfs returns res, the least sh over the node and everything below it
RECURSIVE dfs(_, _, _, _)
dfs(state, mentsu, taatsu, pair_used) ==
    IF mentsu > 4 THEN 999
    ELSE
    LET sh == NodeShanten(mentsu, taatsu, pair_used)
        i == FirstNonZero(state, 0, 33)
    IN  IF i = -1 THEN sh
        ELSE
        LET pos == i - (i \div 9) * 9
            rSkip == dfs([state EXCEPT ![i] = @ - 1], mentsu, taatsu, pair_used)
            rTriplet ==
                IF state[i] >= 3
                THEN dfs([state EXCEPT ![i] = @ - 3], mentsu + 1, taatsu, pair_used)
                ELSE 999
            rSequence ==
                IF i <= 26 /\ pos <= 6 /\ state[i + 1] > 0 /\ state[i + 2] > 0
                THEN dfs([state EXCEPT ![i] = @ - 1, ![i + 1] = @ - 1, ![i + 2] = @ - 1],
                         mentsu + 1, taatsu, pair_used)
                ELSE 999
            rHead ==
                IF pair_used = 0 /\ state[i] >= 2
                THEN dfs([state EXCEPT ![i] = @ - 2], mentsu, taatsu, 1)
                ELSE 999
            rTaatsuPair ==
                IF taatsu < 4 /\ state[i] >= 2
                THEN dfs([state EXCEPT ![i] = @ - 2], mentsu, taatsu + 1, pair_used)
                ELSE 999
            rTaatsuAdj ==
                IF taatsu < 4 /\ i <= 26 /\ pos <= 7 /\ state[i + 1] > 0
                THEN dfs([state EXCEPT ![i] = @ - 1, ![i + 1] = @ - 1],
                         mentsu, taatsu + 1, pair_used)
                ELSE 999
            rTaatsuGap ==
                IF taatsu < 4 /\ i <= 26 /\ pos <= 6 /\ state[i + 2] > 0
                THEN dfs([state EXCEPT ![i] = @ - 1, ![i + 2] = @ - 1],
                         mentsu, taatsu + 1, pair_used)
                ELSE 999
        IN  Min2(sh, Min2(rSkip, Min2(rTriplet, Min2(rSequence,
                Min2(rHead, Min2(rTaatsuPair, Min2(rTaatsuAdj, rTaatsuGap)))))))

\* best starts at 8 and is lowered to every visited node's sh: the root's res
_shanten_standard_general(counts_t) == Min2(8, dfs(counts_t, 0, 0, 0))

\* shanten_standard whose 14-tile loop skips the slots holding a single tile
\* (counts[i] <= 1 in place of counts[i] <= 0)
shanten_standard_skip_singles(counts) ==
    IF _total_tiles(counts) = 14
    THEN SetMin({8} \cup {_shanten_standard_general([counts EXCEPT ![i] = @ - 1]) :
                             i \in {k \in Indices : counts[k] > 1}})
    ELSE _shanten_standard_general(counts)

\* the 14-tile loop: best = 8, lowered to the 13-tile value of every single removal
RECURSIVE shanten_standard(_)
shanten_standard(counts) ==
    IF _total_tiles(counts) = 14
    THEN SetMin({8} \cup {shanten_standard([counts EXCEPT ![i] = @ - 1]) :
                             i \in {k \in Indices : counts[k] > 0}})
    ELSE _shanten_standard_general(counts)

ShantenResult(counts) ==
    [standard |-> shanten_standard(counts),
     chiitoitsu |-> shanten_chiitoitsu(counts),
     kokushi |-> shanten_kokushi(counts)]

minimum(r) == Min2(r.standard, Min2(r.chiitoitsu, r.kokushi))

(***************************************************************************)
(* tenpai.py                                                               *)
(***************************************************************************)
DigitValue(ch) == CHOOSE n \in 0..9 : <<"0", "1", "2", "3", "4", "5", "6", "7", "8", "9">>[n + 1] = ch

honor_order(tile) ==
    IF tile = <<"E">> THEN 3 ELSE IF tile = <<"S">> THEN 4 ELSE IF tile = <<"W">> THEN 5
    ELSE IF tile = <<"N">> THEN 6 ELSE IF tile = <<"P">> THEN 7 ELSE IF tile = <<"F">> THEN 8
    ELSE IF tile = <<"C">> THEN 9 ELSE 99

_tile_sort_key(tile) ==
    IF Len(tile) = 2 /\ tile[2] \in {"m", "p", "s"}
    THEN <<(IF tile[2] = "m" THEN 0 ELSE IF tile[2] = "p" THEN 1 ELSE 2), DigitValue(tile[1])>>
    ELSE <<honor_order(tile), 0>>

KeyLess(a, b) == a[1] < b[1] \/ (a[1] = b[1] /\ a[2] < b[2])

\* list.sort(key=_tile_sort_key): stable, ascending by key
RECURSIVE SortedInsert(_, _)
SortedInsert(sorted, t) ==
    IF sorted = <<>> THEN <<t>>
    ELSE IF KeyLess(_tile_sort_key(t), _tile_sort_key(sorted[Len(sorted)]))
         THEN Append(SortedInsert(SubSeq(sorted, 1, Len(sorted) - 1), t), sorted[Len(sorted)])
         ELSE Append(sorted, t)

RECURSIVE SortTiles(_)
SortTiles(tiles) ==
    IF tiles = <<>> THEN <<>>
    ELSE SortedInsert(SortTiles(SubSeq(tiles, 1, Len(tiles) - 1)), tiles[Len(tiles)])

is_agari_chiitoitsu(counts14) ==
    /\ _total_tiles(counts14) = 14
    /\ SumFrom([i \in Indices |-> counts14[i] \div 2], 0, 33) = 7

is_agari_kokushi(counts14) ==
    IF _total_tiles(counts14) # 14 THEN FALSE
    ELSE LET unique == Cardinality({k \in 1..13 : counts14[TERMINAL_HONOR_INDICES[k]] > 0})
         IN  IF unique # 13 THEN FALSE
             ELSE \E k \in 1..13 : counts14[TERMINAL_HONOR_INDICES[k]] >= 2

\* _suit_meldable with the sequence guard off by one (i <= 5): 7-8-9 is never taken
RECURSIVE _suit_meldable_no789(_)
_suit_meldable_no789(counts9) ==
    LET i == FirstNonZero(counts9, 0, 8)
    IN  IF i = -1 THEN TRUE
        ELSE \/ /\ counts9[i] >= 3
                /\ _suit_meldable_no789([counts9 EXCEPT ![i] = @ - 3])
             \/ /\ i <= 5
                /\ counts9[i + 1] > 0
                /\ counts9[i + 2] > 0
                /\ _suit_meldable_no789([counts9 EXCEPT ![i] = @ - 1, ![i + 1] = @ - 1,
                                                          ![i + 2] = @ - 1])

\* counts9 is a function 0..8 -> Nat, one suit
RECURSIVE _suit_meldable(_)
_suit_meldable(counts9) ==
    LET i == FirstNonZero(counts9, 0, 8)
    IN  IF i = -1 THEN TRUE
        ELSE \/ /\ counts9[i] >= 3
                /\ _suit_meldable([counts9 EXCEPT ![i] = @ - 3])
             \/ /\ i <= 6
                /\ counts9[i + 1] > 0
                /\ counts9[i + 2] > 0
                /\ _suit_meldable([counts9 EXCEPT ![i] = @ - 1, ![i + 1] = @ - 1, ![i + 2] = @ - 1])

_honors_ok(counts) == \A i \in 27..33 : counts[i] % 3 = 0

\* counts[base : base + 9]
SuitSlice(counts, base) == [k \in 0..8 |-> counts[base + k]]

_suits_ok(counts) ==
    /\ _suit_meldable(SuitSlice(counts, 0))
    /\ _suit_meldable(SuitSlice(counts, 9))
    /\ _suit_meldable(SuitSlice(counts, 18))

is_agari_standard(counts14) ==
    IF _total_tiles(counts14) # 14 THEN FALSE
    ELSE \E pair_idx \in Indices :
            /\ counts14[pair_idx] >= 2
            /\ LET counts == [counts14 EXCEPT ![pair_idx] = @ - 2]
               IN  _honors_ok(counts) /\ _suits_ok(counts)

IndexSeq == [k \in 1..NumTiles |-> k - 1]

\* the probe loop of tenpai_waits_for_13: the slots i, ascending, that are
\* not skipped and whose 14-tile hand passes the agari test
Probe(counts13, archetype) ==
    LET agari(c14) == IF archetype = "standard" THEN is_agari_standard(c14)
                      ELSE IF archetype = "chiitoitsu" THEN is_agari_chiitoitsu(c14)
                      ELSE is_agari_kokushi(c14)
        hits == SelectSeq(IndexSeq,
                          LAMBDA i : counts13[i] < 4 /\ agari([counts13 EXCEPT ![i] = @ + 1]))
    IN  [k \in 1..Len(hits) |-> index_to_tile(hits[k]).val]

tenpai_waits_for_13(counts13) ==
    IF _total_tiles(counts13) # 13
    THEN Err("tenpai_waits_for_13 expects exactly 13 tiles.")
    ELSE LET standard == SortTiles(Probe(counts13, "standard"))
             chiitoi == SortTiles(Probe(counts13, "chiitoitsu"))
             kokushi == SortTiles(Probe(counts13, "kokushi"))
         IN  Ok([is_tenpai |-> (standard # <<>> \/ chiitoi # <<>> \/ kokushi # <<>>),
                 standard_waits |-> standard,
                 chiitoi_waits |-> chiitoi,
                 kokushi_waits |-> kokushi])

(***************************************************************************)
(* shanten.py, tenpai.py: the calls as they run, with the lru_cache tables *)
(* of _shanten_standard_general and _suit_meldable and the caller's list   *)
(* passed along.  A table is the set of its entries <<key, value>>.        *)
(***************************************************************************)
\* a key that keeps only how many slots hold each count
_make_key_by_profile(counts_t) ==
    [n \in 0..4 |-> Cardinality({i \in DOMAIN counts_t : counts_t[i] = n})]

\* functools.lru_cache: the key of a call is its argument tuple, here the
\* tuple of the counts in slot order
_make_key(counts_t) == [k \in 1..Cardinality(DOMAIN counts_t) |-> counts_t[k - 1]]

\* the element of a one-element set: {e(r) : r \in {call}} computes the call
\* once, before the next step of a loop uses its parts
Only(S) == CHOOSE v \in S : TRUE

Cached(memo, key) == \E e \in memo : e[1] = key

Lookup(memo, key) == (CHOOSE e \in memo : e[1] = key)[2]

\* _shanten_standard_general behind its lru_cache
_shanten_standard_general_cached(counts_t, memo) ==
    LET key == _make_key(counts_t)
    IN  IF Cached(memo, key) THEN [val |-> Lookup(memo, key), memo |-> memo]
        ELSE Only({[val |-> v, memo |-> memo \cup {<<key, v>>}] :
                       v \in {_shanten_standard_general(counts_t)}})

RECURSIVE shanten_standard_call(_, _)
RECURSIVE shanten_standard_loop(_, _, _)

\* the loop body without counts[i] += 1
shanten_standard_step_no_restore(w, i) ==
    IF w.counts[i] <= 0 THEN w
    ELSE Only({[val |-> Min2(w.val, r.val), counts |-> r.counts, memo |-> r.memo] :
               r \in {shanten_standard_call([w.counts EXCEPT ![i] = @ - 1], w.memo)}})

\* the body of the loop of shanten_standard for slot i: counts[i] -= 1, the
\* inner call on the same list, counts[i] += 1; w holds best, the list and
\* the table so far
shanten_standard_step(w, i) ==
    IF w.counts[i] <= 0 THEN w
    ELSE Only({[val |-> Min2(w.val, r.val),
                counts |-> [r.counts EXCEPT ![i] = @ + 1],
                memo |-> r.memo] :
               r \in {shanten_standard_call([w.counts EXCEPT ![i] = @ - 1], w.memo)}})

\* for i in range(34), the slots lo..hi in order
shanten_standard_loop(w, lo, hi) ==
    IF lo = hi THEN shanten_standard_step(w, lo)
    ELSE Only({shanten_standard_loop(m, (lo + hi) \div 2 + 1, hi) :
               m \in {shanten_standard_loop(w, lo, (lo + hi) \div 2)}})

\* shanten_standard(counts): the value returned, the list as the call leaves
\* it, and the table of _shanten_standard_general afterwards
shanten_standard_call(counts, memo) ==
    IF _total_tiles(counts) = 14
    THEN shanten_standard_loop([val |-> 8, counts |-> counts, memo |-> memo], 0, 33)
    ELSE Only({[val |-> g.val, counts |-> counts, memo |-> g.memo] :
               g \in {_shanten_standard_general_cached(counts, memo)}})

\* _suit_meldable behind its lru_cache: every call that is not served from
\* the table stores its value
RECURSIVE _suit_meldable_cached(_, _)
_suit_meldable_cached(counts9, memo) ==
    LET key == _make_key(counts9)
        i == FirstNonZero(counts9, 0, 8)
    IN  IF Cached(memo, key) THEN [val |-> Lookup(memo, key), memo |-> memo]
        ELSE IF i = -1 THEN [val |-> TRUE, memo |-> memo \cup {<<key, TRUE>>}]
        ELSE Only({IF t.val THEN [val |-> TRUE, memo |-> t.memo \cup {<<key, TRUE>>}]
                   ELSE Only({[val |-> q.val, memo |-> q.memo \cup {<<key, q.val>>}] :
                              q \in {IF i <= 6 /\ counts9[i + 1] > 0 /\ counts9[i + 2] > 0
                                     THEN _suit_meldable_cached(
                                              [counts9 EXCEPT ![i] = @ - 1, ![i + 1] = @ - 1,
                                                              ![i + 2] = @ - 1], t.memo)
                                     ELSE [val |-> FALSE, memo |-> t.memo]}}) :
                   t \in {IF counts9[i] >= 3
                          THEN _suit_meldable_cached([counts9 EXCEPT ![i] = @ - 3], memo)
                          ELSE [val |-> FALSE, memo |-> memo]}})

\* _suits_ok: the three suits in turn, stopping at the first that fails
_suits_ok_cached(counts, memo) ==
    Only({IF ~m.val THEN m
          ELSE Only({IF ~p.val THEN p ELSE _suit_meldable_cached(SuitSlice(counts, 18), p.memo) :
                     p \in {_suit_meldable_cached(SuitSlice(counts, 9), m.memo)}}) :
          m \in {_suit_meldable_cached(SuitSlice(counts, 0), memo)}})

\* the body of the loop of is_agari_standard for pair_idx, skipped once the
\* function has returned True; counts14 is copied, never written
is_agari_standard_step(counts14, w, pair_idx) ==
    IF w.val \/ counts14[pair_idx] < 2 THEN w
    ELSE LET counts_copy == [counts14 EXCEPT ![pair_idx] = @ - 2]
         IN  IF _honors_ok(counts_copy) THEN _suits_ok_cached(counts_copy, w.memo) ELSE w

\* for pair_idx in range(34), the slots lo..hi in order
RECURSIVE is_agari_standard_from(_, _, _, _)
is_agari_standard_from(counts14, w, lo, hi) ==
    IF lo = hi THEN is_agari_standard_step(counts14, w, lo)
    ELSE Only({is_agari_standard_from(counts14, m, (lo + hi) \div 2 + 1, hi) :
               m \in {is_agari_standard_from(counts14, w, lo, (lo + hi) \div 2)}})

is_agari_standard_call(counts14, memo) ==
    IF _total_tiles(counts14) # 14 THEN [val |-> FALSE, memo |-> memo]
    ELSE is_agari_standard_from(counts14, [val |-> FALSE, memo |-> memo], 0, 33)

\* the body of the loop of tenpai_waits_for_13 for slot i: c14 is a copy of
\* counts13; w holds the three lists and the table so far
waits_step(counts13, w, i) ==
    IF counts13[i] >= 4 THEN w
    ELSE LET c14 == [counts13 EXCEPT ![i] = @ + 1]
             t == index_to_tile(i).val
             found == w.val
         IN  Only({[val |-> [standard |-> IF a.val THEN Append(found.standard, t)
                                          ELSE found.standard,
                             chiitoi |-> IF is_agari_chiitoitsu(c14)
                                         THEN Append(found.chiitoi, t) ELSE found.chiitoi,
                             kokushi |-> IF is_agari_kokushi(c14)
                                         THEN Append(found.kokushi, t) ELSE found.kokushi],
                    memo |-> a.memo] :
                   a \in {is_agari_standard_call(c14, w.memo)}})

\* for i in range(34), the slots lo..hi in order
RECURSIVE waits_from(_, _, _, _)
waits_from(counts13, w, lo, hi) ==
    IF lo = hi THEN waits_step(counts13, w, lo)
    ELSE Only({waits_from(counts13, m, (lo + hi) \div 2 + 1, hi) :
               m \in {waits_from(counts13, w, lo, (lo + hi) \div 2)}})

\* tenpai_waits_for_13(counts13): the value returned or the error raised, and
\* the table of _suit_meldable afterwards
tenpai_waits_for_13_call(counts13, memo) ==
    IF _total_tiles(counts13) # 13
    THEN [val |-> Err("tenpai_waits_for_13 expects exactly 13 tiles."), memo |-> memo]
    ELSE Only({LET standard == SortTiles(w.val.standard)
                   chiitoi == SortTiles(w.val.chiitoi)
                   kokushi == SortTiles(w.val.kokushi)
               IN  [val |-> Ok([is_tenpai |-> (standard # <<>> \/ chiitoi # <<>>
                                                  \/ kokushi # <<>>),
                                standard_waits |-> standard,
                                chiitoi_waits |-> chiitoi,
                                kokushi_waits |-> kokushi]),
                    memo |-> w.memo] :
               w \in {waits_from(counts13,
                                 [val |-> [standard |-> <<>>, chiitoi |-> <<>>,
                                           kokushi |-> <<>>],
                                  memo |-> memo],
                                 0, 33)}})

(***************************************************************************)
(* Reference definitions of section 4.3 / 4.5: a standard agari is a pair  *)
(* plus melds that use up the count vector.  A meld is coded by one        *)
(* number: i for the triplet of slot i, 34 + i for the sequence i,i+1,i+2. *)
(***************************************************************************)
MeldCodes == Indices \cup {34 + i : i \in {k \in 0..26 : k % 9 <= 6}}

MeldTiles(code) == IF code < 34 THEN <<code, code, code>>
                   ELSE <<code - 34, code - 33, code - 32>>

Fits(c, code) ==
    IF code < 34 THEN c[code] >= 3
    ELSE c[code - 34] >= 1 /\ c[code - 33] >= 1 /\ c[code - 32] >= 1

Take(c, code) ==
    IF code < 34 THEN [c EXCEPT ![code] = @ - 3]
    ELSE [c EXCEPT ![code - 34] = @ - 1, ![code - 33] = @ - 1, ![code - 32] = @ - 1]

\* the non-decreasing sequences of n meld codes >= lo that use up c exactly
RECURSIVE MeldSplits(_, _, _)
MeldSplits(c, n, lo) ==
    IF n = 0 THEN (IF \A i \in Indices : c[i] = 0 THEN {<<>>} ELSE {})
    ELSE UNION { { <<code>> \o rest : rest \in MeldSplits(Take(c, code), n - 1, code) } :
                 code \in {k \in MeldCodes : k >= lo /\ Fits(c, k)} }

\* every <<pair, melds>> with pair + n melds = c
Partitions(c, n) ==
    UNION { { <<p, ms>> : ms \in MeldSplits([c EXCEPT ![p] = @ - 2], n, 0) } :
            p \in {k \in Indices : c[k] >= 2} }

StandardAgariRef(c14) == _total_tiles(c14) = 14 /\ Partitions(c14, 4) # {}

(***************************************************************************)
(* points.py                                                               *)
(***************************************************************************)
\* int | None: None is the empty sequence, a value v the sequence <<v>>
None == <<>>
Some(v) == <<v>>

\* 2 ** n
RECURSIVE Pow2(_)
Pow2(n) == IF n <= 0 THEN 1 ELSE 2 * Pow2(n - 1)

\* rounding up to the next 10
_ceil_to_10(x) == ((x + 9) \div 10) * 10

_ceil_to_100(x) == ((x + 99) \div 100) * 100

WinTypes == {"ron", "tsumo", "both"}

PointsResult(han, fu, limit_name, is_dealer, ron_points, tsumo_non, tsumo_dealer) ==
    [han |-> han, fu |-> fu, limit_name |-> limit_name, is_dealer |-> is_dealer,
     ron_points |-> ron_points,
     tsumo_non_dealer_points |-> tsumo_non,
     tsumo_dealer_points |-> tsumo_dealer]

\* (self.x or 0)
OrZero(opt) == IF opt = None THEN 0 ELSE opt[1]

\* the property tsumo_total_points of a PointsResult
tsumo_total_points(r) ==
    IF r.tsumo_non_dealer_points = None /\ r.tsumo_dealer_points = None THEN None
    ELSE IF r.is_dealer THEN Some(OrZero(r.tsumo_dealer_points) * 3)
    ELSE Some(OrZero(r.tsumo_dealer_points) + OrZero(r.tsumo_non_dealer_points) * 2)

\* the payouts with a ron of base x 4 whoever wins
payouts_ron4(base_points, is_dealer, win_type) ==
    [ron_points |-> IF win_type \in {"ron", "both"}
                    THEN Some(_ceil_to_100(base_points * 4))
                    ELSE None,
     tsumo_dealer |-> IF win_type \in {"tsumo", "both"}
                      THEN Some(_ceil_to_100(base_points * 2))
                      ELSE None,
     tsumo_non |-> IF win_type \in {"tsumo", "both"} /\ ~is_dealer
                   THEN Some(_ceil_to_100(base_points * 1))
                   ELSE None]

\* the three payouts for base points base: ron_points, tsumo_non, tsumo_dealer
payouts(base_points, is_dealer, win_type) ==
    [ron_points |-> IF win_type \in {"ron", "both"}
                    THEN Some(_ceil_to_100(base_points * (IF is_dealer THEN 6 ELSE 4)))
                    ELSE None,
     tsumo_dealer |-> IF win_type \in {"tsumo", "both"}
                      THEN Some(_ceil_to_100(base_points * 2))
                      ELSE None,
     tsumo_non |-> IF win_type \in {"tsumo", "both"} /\ ~is_dealer
                   THEN Some(_ceil_to_100(base_points * 1))
                   ELSE None]

yakuman_limit_name(yakuman_multiplier) ==
    IF yakuman_multiplier = 1 THEN "Yakuman" ELSE ToString(yakuman_multiplier) \o "x Yakuman"

estimate_yakuman_points(yakuman_multiplier, is_dealer, win_type) ==
    IF yakuman_multiplier < 1 THEN Err("yakuman_multiplier must be >= 1.")
    ELSE IF win_type \notin WinTypes THEN Err("win_type must be one of: ron, tsumo, both")
    ELSE LET p == payouts(8000 * yakuman_multiplier, is_dealer, win_type)
         IN  Ok(PointsResult(0, 0, yakuman_limit_name(yakuman_multiplier), is_dealer,
                             p.ron_points, p.tsumo_non, p.tsumo_dealer))

\* the limits decided on han and fu alone
_limit_base_points_by_han(han, fu, base_points) ==
    IF han >= 13 THEN <<8000, "Kazoe Yakuman">>
    ELSE IF han >= 11 THEN <<6000, "Sanbaiman">>
    ELSE IF han >= 8 THEN <<4000, "Baiman">>
    ELSE IF han >= 6 THEN <<3000, "Haneman">>
    ELSE IF han >= 5 \/ (han = 4 /\ fu >= 40) \/ (han = 3 /\ fu >= 70)
    THEN <<2000, "Mangan">>
    ELSE <<base_points, "None">>

\* (base, limit_name)
_limit_base_points(han, fu, base_points) ==
    IF han >= 13 THEN <<8000, "Kazoe Yakuman">>
    ELSE IF han >= 11 THEN <<6000, "Sanbaiman">>
    ELSE IF han >= 8 THEN <<4000, "Baiman">>
    ELSE IF han >= 6 THEN <<3000, "Haneman">>
    ELSE IF han >= 5 \/ (han = 4 /\ fu >= 40) \/ (han = 3 /\ fu >= 70) \/ base_points >= 2000
    THEN <<2000, "Mangan">>
    ELSE <<base_points, "None">>

\* base, limit_name = _limit_base_points(han, fu, fu * 2 ** (han + 2))
limited_base(han, fu) == _limit_base_points(han, fu, fu * Pow2(han + 2))

estimate_points(han, fu, is_dealer, win_type) ==
    IF han < 1 THEN Err("han must be >= 1 for a winning hand.")
    ELSE IF fu < 20 THEN Err("fu must be >= 20.")
    ELSE IF win_type \notin WinTypes THEN Err("win_type must be one of: ron, tsumo, both")
    ELSE LET bl == limited_base(han, fu)
             p == payouts(bl[1], is_dealer, win_type)
         IN  Ok(PointsResult(han, fu, bl[2], is_dealer,
                             p.ron_points, p.tsumo_non, p.tsumo_dealer))

(***************************************************************************)
(* scoring.py: melds, the decomposition engine, fixed-meld extraction      *)
(***************************************************************************)
\* 0m/0p/0s -> 5m/5p/5s, every other token unchanged
red_five_to_five(t) ==
    IF Len(t) = 2 /\ t[1] = "0" /\ t[2] \in {"m", "p", "s"} THEN <<"5", t[2]>> ELSE t

Meld(kind, open, tiles) == [kind |-> kind, open |-> open, tiles |-> tiles]

Decomposition(pair, melds) == [pair |-> pair, melds |-> melds]

\* "m" | "p" | "s", or "None" for an honor
_suit_of_idx(idx) ==
    IF 0 <= idx /\ idx <= 8 THEN "m"
    ELSE IF 9 <= idx /\ idx <= 17 THEN "p"
    ELSE IF 18 <= idx /\ idx <= 26 THEN "s"
    ELSE "None"

\* rec of _decompose_standard_all: the meld lists appended to decomps, in order
RECURSIVE rec_all(_, _)
rec_all(c, melds) ==
    LET i == FirstNonZero(c, 0, 33)
    IN  IF i = -1 THEN (IF Len(melds) = 4 THEN <<melds>> ELSE <<>>)
        ELSE IF Len(melds) > 4 THEN <<>>
        ELSE
        LET triplet ==
                IF c[i] >= 3
                THEN rec_all([c EXCEPT ![i] = @ - 3],
                             Append(melds, Meld("pon", FALSE, <<i, i, i>>)))
                ELSE <<>>
            sequence ==
                IF _suit_of_idx(i) # "None" /\ i % 9 <= 6 /\ c[i + 1] > 0 /\ c[i + 2] > 0
                THEN rec_all([c EXCEPT ![i] = @ - 1, ![i + 1] = @ - 1, ![i + 2] = @ - 1],
                             Append(melds, Meld("chi", FALSE, <<i, i + 1, i + 2>>)))
                ELSE <<>>
        IN  triplet \o sequence

\* sorted(..., key=lambda x: (x[0], x[1])) on (kind, tiles): kind as a string
\* ("chi" < "kan" < "pon"), then the tile triple
KindRank(kind) == IF kind = "chi" THEN 0 ELSE IF kind = "kan" THEN 1 ELSE 2

SigLess(a, b) ==
    \/ KindRank(a[1]) < KindRank(b[1])
    \/ /\ a[1] = b[1]
       /\ \/ a[2][1] < b[2][1]
          \/ (a[2][1] = b[2][1] /\ a[2][2] < b[2][2])
          \/ (a[2][1] = b[2][1] /\ a[2][2] = b[2][2] /\ a[2][3] < b[2][3])

RECURSIVE SigInsert(_, _)
SigInsert(sorted, x) ==
    IF sorted = <<>> THEN <<x>>
    ELSE IF SigLess(x, sorted[Len(sorted)])
         THEN Append(SigInsert(SubSeq(sorted, 1, Len(sorted) - 1), x), sorted[Len(sorted)])
         ELSE Append(sorted, x)

RECURSIVE SigSort(_)
SigSort(sig) ==
    IF sig = <<>> THEN <<>>
    ELSE SigInsert(SigSort(SubSeq(sig, 1, Len(sig) - 1)), sig[Len(sig)])

meld_sig(d) == SigSort([k \in 1..Len(d.melds) |-> <<d.melds[k].kind, d.melds[k].tiles>>])

DecompKey(d) == <<d.pair, meld_sig(d)>>

\* uniq[key] = d for d in decomps; list(uniq.values()): one entry per key, at
\* the place of the key's first occurrence, holding its last occurrence
Dedup(ds) ==
    LET firsts == SelectSeq([j \in 1..Len(ds) |-> j],
                            LAMBDA j : \A j2 \in 1..(j - 1) : DecompKey(ds[j2]) # DecompKey(ds[j]))
        last(j) == CHOOSE j2 \in j..Len(ds) :
                       /\ DecompKey(ds[j2]) = DecompKey(ds[j])
                       /\ \A j3 \in (j2 + 1)..Len(ds) : DecompKey(ds[j3]) # DecompKey(ds[j])
    IN  [k \in 1..Len(firsts) |-> ds[last(firsts[k])]]

\* the pair slots the outer loop does not skip, ascending
PairCandidates(c) ==
    SelectSeq(IndexSeq,
              LAMBDA p : c[p] >= 2 /\ \A i \in 27..33 : [c EXCEPT ![p] = @ - 2][i] % 3 = 0)

RECURSIVE ConcatAll(_)
ConcatAll(lists) == IF lists = <<>> THEN <<>> ELSE Head(lists) \o ConcatAll(Tail(lists))

\* _decompose_standard_all without the final de-duplication
decompose_all_raw(counts14) ==
    LET pairs == PairCandidates(counts14)
    IN  ConcatAll([k \in 1..Len(pairs) |->
            LET found == rec_all([counts14 EXCEPT ![pairs[k]] = @ - 2], <<>>)
            IN  [j \in 1..Len(found) |-> Decomposition(pairs[k], found[j])]])

_decompose_standard_all(counts14) ==
    IF _total_tiles(counts14) # 14 THEN Err("Expected 14 tiles for decomposition.")
    ELSE IF ~is_agari_standard(counts14) THEN Ok(<<>>)
    ELSE Ok(Dedup(decompose_all_raw(counts14)))

\* rec with the sequence branch open to position 8 of a suit
RECURSIVE rec_fixed_pos7(_, _, _)
rec_fixed_pos7(counts_work, melds, melds_needed) ==
    LET i == FirstNonZero(counts_work, 0, 33)
    IN  IF i = -1 THEN (IF Len(melds) = melds_needed THEN <<melds>> ELSE <<>>)
        ELSE IF Len(melds) > melds_needed THEN <<>>
        ELSE
        LET triplet ==
                IF counts_work[i] >= 3
                THEN rec_fixed_pos7([counts_work EXCEPT ![i] = @ - 3],
                               Append(melds, Meld("pon", FALSE, <<i, i, i>>)), melds_needed)
                ELSE <<>>
            sequence ==
                IF /\ _suit_of_idx(i) # "None"
                   /\ i % 9 <= 7
                   /\ counts_work[i + 1] > 0
                   /\ counts_work[i + 2] > 0
                THEN rec_fixed_pos7([counts_work EXCEPT ![i] = @ - 1, ![i + 1] = @ - 1,
                                                   ![i + 2] = @ - 1],
                               Append(melds, Meld("chi", FALSE, <<i, i + 1, i + 2>>)),
                               melds_needed)
                ELSE <<>>
        IN  triplet \o sequence

\* rec of _decompose_standard_with_fixed_melds: the meld lists found, in order
RECURSIVE rec_fixed(_, _, _)
rec_fixed(counts_work, melds, melds_needed) ==
    LET i == FirstNonZero(counts_work, 0, 33)
    IN  IF i = -1 THEN (IF Len(melds) = melds_needed THEN <<melds>> ELSE <<>>)
        ELSE IF Len(melds) > melds_needed THEN <<>>
        ELSE
        LET triplet ==
                IF counts_work[i] >= 3
                THEN rec_fixed([counts_work EXCEPT ![i] = @ - 3],
                               Append(melds, Meld("pon", FALSE, <<i, i, i>>)), melds_needed)
                ELSE <<>>
            sequence ==
                IF /\ _suit_of_idx(i) # "None"
                   /\ i % 9 <= 6
                   /\ counts_work[i + 1] > 0
                   /\ counts_work[i + 2] > 0
                THEN rec_fixed([counts_work EXCEPT ![i] = @ - 1, ![i + 1] = @ - 1,
                                                   ![i + 2] = @ - 1],
                               Append(melds, Meld("chi", FALSE, <<i, i + 1, i + 2>>)),
                               melds_needed)
                ELSE <<>>
        IN  triplet \o sequence

\* _decompose_standard_with_fixed_melds without the final de-duplication
decompose_fixed_raw(c, fixed_melds, melds_needed) ==
    LET pairs == PairCandidates(c)
    IN  ConcatAll([k \in 1..Len(pairs) |->
            LET found == SelectSeq(rec_fixed([c EXCEPT ![pairs[k]] = @ - 2], <<>>, melds_needed),
                                   LAMBDA melds : Len(fixed_melds \o melds) = 4)
            IN  [j \in 1..Len(found) |-> Decomposition(pairs[k], fixed_melds \o found[j])]])

\* the decompositions as collected, not de-duplicated
decompose_fixed_keep_duplicates(c, fixed_melds, melds_needed) ==
    decompose_fixed_raw(c, fixed_melds, melds_needed)

_decompose_standard_with_fixed_melds(c, fixed_melds, melds_needed) ==
    Dedup(decompose_fixed_raw(c, fixed_melds, melds_needed))

\* list.remove(x): drops the first occurrence
RemoveFirst(seq, x) ==
    LET k == CHOOSE j \in 1..Len(seq) : seq[j] = x /\ \A j2 \in 1..(j - 1) : seq[j2] # x
    IN  SubSeq(seq, 1, k - 1) \o SubSeq(seq, k + 1, Len(seq))

Sorted3(a, b, c) ==
    LET lo == Min2(a, Min2(b, c))
        hi == Max2(a, Max2(b, c))
    IN  <<lo, a + b + c - lo - hi, hi>>

\* the open-kan loop: each turn pops four tiles from the end of remaining
RECURSIVE parse_open_kans(_, _, _, _)
parse_open_kans(remaining, open_kan_pool, fixed_melds, n) ==
    IF n <= 0 THEN Ok([remaining |-> remaining, fixed_melds |-> fixed_melds])
    ELSE IF Len(remaining) < 4
    THEN Err("Not enough tiles to parse open kan meld(s) from the end of hand.")
    ELSE
    LET L == Len(remaining)
        meld_tiles_raw == <<remaining[L], remaining[L - 1], remaining[L - 2], remaining[L - 3]>>
        meld_tiles_norm == [k \in 1..4 |-> red_five_to_five(meld_tiles_raw[k])]
        tile_norm == meld_tiles_norm[1]
        idx == tile_to_index(tile_norm)
    IN  IF Cardinality({meld_tiles_norm[k] : k \in 1..4}) # 1
        THEN Err("Open kan meld must be four identical tiles.")
        ELSE IF \A j \in 1..Len(open_kan_pool) : open_kan_pool[j] # tile_norm
        THEN Err("Open kan tile not found in kan_tiles list.")
        ELSE IF ~idx.ok THEN idx
        ELSE parse_open_kans(SubSeq(remaining, 1, L - 4),
                             RemoveFirst(open_kan_pool, tile_norm),
                             Append(fixed_melds, Meld("kan", TRUE, <<idx.val, idx.val, idx.val>>)),
                             n - 1)

\* the open pon/chi loop: each turn pops three tiles from the end of remaining
RECURSIVE parse_open_melds(_, _, _)
parse_open_melds(remaining, fixed_melds, n) ==
    IF n <= 0 THEN Ok([remaining |-> remaining, fixed_melds |-> fixed_melds])
    ELSE IF Len(remaining) < 3
    THEN Err("Not enough tiles to parse furo meld(s) from the end of hand.")
    ELSE
    LET L == Len(remaining)
        meld_tiles_raw == <<remaining[L], remaining[L - 1], remaining[L - 2]>>
        meld_tiles_norm == [k \in 1..3 |-> red_five_to_five(meld_tiles_raw[k])]
        ix == [k \in 1..3 |-> tile_to_index(meld_tiles_norm[k])]
        idxs == Sorted3(ix[1].val, ix[2].val, ix[3].val)
        suits == {_suit_of_idx(idxs[k]) : k \in 1..3}
    IN  IF Cardinality({meld_tiles_norm[k] : k \in 1..3}) = 1
        THEN IF ~ix[1].ok THEN ix[1]
             ELSE parse_open_melds(SubSeq(remaining, 1, L - 3),
                                   Append(fixed_melds,
                                          Meld("pon", TRUE, <<ix[1].val, ix[1].val, ix[1].val>>)),
                                   n - 1)
        ELSE IF \E k \in 1..3 : ~ix[k].ok THEN Err("Invalid tiles in furo meld")
        ELSE IF "None" \in suits \/ Cardinality(suits) # 1
        THEN Err("Furo chi meld must be suited tiles")
        ELSE IF ~(idxs[1] + 1 = idxs[2] /\ idxs[2] + 1 = idxs[3])
        THEN Err("Furo chi meld must be consecutive tiles")
        ELSE parse_open_melds(SubSeq(remaining, 1, L - 3),
                              Append(fixed_melds, Meld("chi", TRUE, idxs)),
                              n - 1)

\* the ankan loop: one concealed kan per entry of ankan_tiles
RECURSIVE append_ankans(_, _)
append_ankans(ankan_tiles, fixed_melds) ==
    IF ankan_tiles = <<>> THEN Ok(fixed_melds)
    ELSE LET idx == tile_to_index(red_five_to_five(Head(ankan_tiles)))
         IN  IF ~idx.ok THEN idx
             ELSE append_ankans(Tail(ankan_tiles),
                                Append(fixed_melds,
                                       Meld("kan", FALSE, <<idx.val, idx.val, idx.val>>)))

\* score_points_from_config from the counts check to full_counts: the fixed
\* melds (open kans, open pon/chi, ankans, in that order) and the count vector
\* of hand + win tile
extract_fixed_melds(c) ==
    LET total_kans == Len(c.ankan_tiles) + Len(c.kan_tiles)
        open_kan_pool == [k \in 1..Len(c.kan_tiles) |-> red_five_to_five(c.kan_tiles[k])]
        kans == parse_open_kans(c.hand_raw, open_kan_pool, <<>>, c.kan_sets)
        open == parse_open_melds(kans.val.remaining, kans.val.fixed_melds,
                                 c.furo_sets - c.kan_sets)
        fixed == append_ankans(c.ankan_tiles, open.val.fixed_melds)
        full_norm == [k \in 1..Len(c.hand_raw) |-> red_five_to_five(c.hand_raw[k])]
                         \o <<red_five_to_five(c.win_raw)>>
        full_counts == tiles_to_counts(full_norm)
    IN  IF c.kan_sets # Len(c.kan_tiles) THEN Err("kan_sets must equal len(kan_tiles).")
        ELSE IF c.furo_sets < 0 \/ c.kan_sets < 0 \/ c.kan_sets > c.furo_sets
        THEN Err("Invalid furo/kan counts: require 0 <= kan_sets <= furo_sets.")
        ELSE IF Len(c.hand_raw) # 13 + total_kans
        THEN Err("In points mode, 'hand' must contain exactly 13 + total_kans tiles.")
        ELSE IF ~kans.ok THEN kans
        ELSE IF ~open.ok THEN open
        ELSE IF ~fixed.ok THEN fixed
        ELSE IF ~full_counts.ok THEN full_counts
        ELSE Ok([fixed_melds |-> fixed.val, full_counts |-> full_counts.val])

\* the tiles a fixed meld takes out of the count vector: 4 of tiles[0] for a
\* kan, 3 of tiles[0] for a pon, one of each tile for a chi
fixed_meld_tiles(m) ==
    IF m.kind = "kan" THEN <<m.tiles[1], m.tiles[1], m.tiles[1], m.tiles[1]>>
    ELSE IF m.kind = "pon" THEN <<m.tiles[1], m.tiles[1], m.tiles[1]>>
    ELSE m.tiles

\* counts_for_decomp: decrement tile by tile, failing on the first negative
RECURSIVE subtract_tiles(_, _)
subtract_tiles(c, idxs) ==
    IF idxs = <<>> THEN Ok(c)
    ELSE IF c[Head(idxs)] - 1 < 0
         THEN Err("Fixed meld tiles do not match the provided hand tiles.")
         ELSE subtract_tiles([c EXCEPT ![Head(idxs)] = @ - 1], Tail(idxs))

counts_for_decomp(full_counts, fixed_melds) ==
    subtract_tiles(full_counts,
                   ConcatAll([k \in 1..Len(fixed_melds) |-> fixed_meld_tiles(fixed_melds[k])]))

\* score_points_from_config from the closed-hand check to the decomposition:
\* [stage, decomps] for the extracted fixed melds and counts
standard_decomps(c, e) ==
    LET total_kans == Len(c.ankan_tiles) + Len(c.kan_tiles)
        is_closed == \A k \in 1..Len(e.fixed_melds) : ~e.fixed_melds[k].open
        melds_needed == 4 - Len(e.fixed_melds)
        cfd == counts_for_decomp(e.full_counts, e.fixed_melds)
        found == _decompose_standard_with_fixed_melds(cfd.val, e.fixed_melds, melds_needed)
    IN  IF c.riichi /\ ~is_closed
        THEN [stage |-> "error",
              decomps |-> Err("riichi=true is not allowed when the hand is open (furo).")]
        ELSE IF total_kans = 0 /\ is_agari_kokushi(e.full_counts)
        THEN [stage |-> "kokushi", decomps |-> NotEvaluated]
        ELSE IF total_kans = 0 /\ c.furo_sets = 0 /\ is_agari_chiitoitsu(e.full_counts)
        THEN [stage |-> "chiitoitsu", decomps |-> NotEvaluated]
        ELSE IF melds_needed < 0
        THEN [stage |-> "error", decomps |-> Err("Too many fixed melds (furo + kans).")]
        ELSE IF ~cfd.ok THEN [stage |-> "error", decomps |-> cfd]
        ELSE IF found = <<>>
        THEN [stage |-> "error",
              decomps |-> Err("Hand is not a winning hand with the provided win_tile.")]
        ELSE [stage |-> "decomposed", decomps |-> Ok(found)]

(***************************************************************************)
(* scoring.py: dora, yaku, fu, yakuman and the score of a winning hand     *)
(***************************************************************************)
Yaku(name, han_closed) == [name |-> name, han_closed |-> han_closed]

Yakuman(name, multiplier) == [name |-> name, multiplier |-> multiplier]

ScoreBreakdown(win_type, is_dealer, hand, win_tile, full_normalized, yaku, yakuman, han, fu, dora_han, aka_dora_han, points) ==
    [win_type |-> win_type, is_dealer |-> is_dealer, hand |-> hand, win_tile |-> win_tile,
     full_normalized |-> full_normalized, yaku |-> yaku, yakuman |-> yakuman,
     han |-> han, fu |-> fu, dora_han |-> dora_han, aka_dora_han |-> aka_dora_han,
     points |-> points]

_is_terminal_or_honor_idx(idx) == \E k \in 1..Len(TERMINAL_HONOR_INDICES) : TERMINAL_HONOR_INDICES[k] = idx

reds == {<<"0", "m">>, <<"0", "p">>, <<"0", "s">>}

_aka_dora_han(hand13_raw, win_raw) ==
    Cardinality({k \in 1..Len(hand13_raw) : hand13_raw[k] \in reds})
        + (IF win_raw \in reds THEN 1 ELSE 0)

\* the dora count against the dora tokens as written
_dora_han_raw(full14_normalized, dora_tiles_raw) ==
    IF dora_tiles_raw = <<>> THEN 0
    ELSE LET dset == {dora_tiles_raw[k] : k \in 1..Len(dora_tiles_raw)}
         IN  Cardinality({k \in 1..Len(full14_normalized) : full14_normalized[k] \in dset})

_dora_han(full14_normalized, dora_tiles_raw) ==
    IF dora_tiles_raw = <<>> THEN 0
    ELSE LET dset == {red_five_to_five(dora_tiles_raw[k]) : k \in 1..Len(dora_tiles_raw)}
         IN  Cardinality({k \in 1..Len(full14_normalized) : full14_normalized[k] \in dset})

\* len(t) == 2 and t[1] in ("m", "p", "s")
IsSuited(t) == Len(t) = 2 /\ t[2] \in {"m", "p", "s"}

_is_all_simples(full14_norm) ==
    \A k \in 1..Len(full14_norm) :
        IsSuited(full14_norm[k]) /\ full14_norm[k][1] \notin {"1", "9"}

\* (suits, has_honors)
_suits_used(full14_norm) ==
    [suits |-> {full14_norm[k][2] : k \in {j \in 1..Len(full14_norm) : IsSuited(full14_norm[j])}},
     has_honors |-> \E k \in 1..Len(full14_norm) : ~IsSuited(full14_norm[k])]

_yakuhai_han(decomp, seat_wind, round_wind) ==
    LET value_tiles == {<<"P">>, <<"F">>, <<"C">>, seat_wind, round_wind}
        value_idxs == {TILE_INDICES[v] : v \in value_tiles \cap DOMAIN TILE_INDICES}
    IN  Cardinality({k \in 1..Len(decomp.melds) :
                        /\ decomp.melds[k].kind \in {"pon", "kan"}
                        /\ decomp.melds[k].tiles[1] \in value_idxs})

_is_toitoi(decomp) == \A k \in 1..Len(decomp.melds) : decomp.melds[k].kind \in {"pon", "kan"}

_is_pinfu_candidate(decomp, seat_wind, round_wind) ==
    IF \E k \in 1..Len(decomp.melds) : decomp.melds[k].kind # "chi" THEN FALSE
    ELSE index_to_tile(decomp.pair).val \notin {<<"P">>, <<"F">>, <<"C">>, seat_wind, round_wind}

\* the fu of the wait: decided by the pair, else by the first meld holding win_idx
_wait_fu(decomp, win_idx) ==
    IF decomp.pair = win_idx THEN 2
    ELSE LET holding == {k \in 1..Len(decomp.melds) :
                            \E j \in 1..3 : decomp.melds[k].tiles[j] = win_idx}
         IN  IF holding = {} THEN 0
             ELSE LET m == decomp.melds[SetMin(holding)]
                      a == m.tiles[1]
                      b == m.tiles[2]
                      c == m.tiles[3]
                  IN  IF m.kind \in {"pon", "kan"} THEN 0
                      ELSE IF win_idx = c /\ a % 9 = 0 /\ b % 9 = 1 /\ c % 9 = 2 THEN 2
                      ELSE IF win_idx = a /\ a % 9 = 6 /\ b % 9 = 7 /\ c % 9 = 8 THEN 2
                      ELSE IF win_idx = b THEN 2
                      ELSE 0

\* the fu of one meld
meld_fu_of(m) ==
    LET is_term == _is_terminal_or_honor_idx(m.tiles[1])
    IN  IF m.kind \notin {"pon", "kan"} THEN 0
        ELSE IF m.kind = "pon"
        THEN (IF m.open THEN (IF is_term THEN 4 ELSE 2) ELSE (IF is_term THEN 8 ELSE 4))
        ELSE (IF m.open THEN (IF is_term THEN 16 ELSE 8) ELSE (IF is_term THEN 32 ELSE 16))

_meld_fu(decomp) ==
    SumFrom([k \in 0..(Len(decomp.melds) - 1) |-> meld_fu_of(decomp.melds[k + 1])],
            0, Len(decomp.melds) - 1)

_pair_fu(pair_idx, seat_wind, round_wind) ==
    LET t == index_to_tile(pair_idx).val
    IN  IF t \in {<<"P">>, <<"F">>, <<"C">>} THEN 2
        ELSE IF t = seat_wind THEN 2
        ELSE IF t = round_wind THEN 2
        ELSE 0

_fu_standard(decomp, win_type, win_idx, seat_wind, round_wind, is_pinfu, is_closed) ==
    IF is_pinfu /\ win_type = "tsumo" THEN 20
    ELSE LET fu0 == 20 + (IF win_type = "ron" THEN (IF is_closed THEN 10 ELSE 0) ELSE 2)
                       + _pair_fu(decomp.pair, seat_wind, round_wind)
                       + _meld_fu(decomp)
                       + _wait_fu(decomp, win_idx)
             fu1 == IF is_pinfu THEN (IF win_type = "ron" /\ is_closed THEN 30 ELSE 20) ELSE fu0
         IN  Max2(((fu1 + 9) \div 10) * 10, 30)

\* the count vector of 1 1 1 2 3 4 5 6 7 8 9 9 9 in the suit starting at slot off
chuuren_base(off) ==
    [i \in Indices |-> IF i = off \/ i = off + 8 THEN 3
                       ELSE IF off < i /\ i < off + 8 THEN 1
                       ELSE 0]

suit_offset(suit) == IF suit = "m" THEN 0 ELSE IF suit = "p" THEN 9 ELSE 18

\* the yakuman with Suuankou Tanki awarded on every ron
_yakuman_from_tiles_any_ron(full14_counts, full14_norm, win_type, decomp, win_idx) ==
    IF is_agari_kokushi(full14_counts) THEN <<Yakuman("Kokushi Musou", 1)>>
    ELSE
    LET su == _suits_used(full14_norm)
        chuuren ==
            IF Cardinality(su.suits) = 1 /\ ~su.has_honors
            THEN LET b == chuuren_base(suit_offset(CHOOSE x \in su.suits : TRUE))
                     ok == \A i \in Indices : full14_counts[i] >= b[i]
                     extra == SumFrom([i \in Indices |-> full14_counts[i] - b[i]], 0, 33)
                 IN  IF ok /\ extra = 1 THEN <<Yakuman("Chuuren Poutou", 1)>> ELSE <<>>
            ELSE <<>>
        d == decomp[1]
        triplet(k) == d.melds[k].kind \in {"pon", "kan"}
        daisangen ==
            IF \A di \in {31, 32, 33} :
                   \E k \in 1..Len(d.melds) : triplet(k) /\ d.melds[k].tiles[1] = di
            THEN <<Yakuman("Daisangen", 1)>> ELSE <<>>
        suuankou ==
            IF Cardinality({k \in 1..Len(d.melds) : triplet(k)}) = 4 /\ win_idx # <<>>
            THEN IF win_type = "tsumo" THEN <<Yakuman("Suuankou", 1)>>
                 ELSE <<Yakuman("Suuankou Tanki", 2)>>
            ELSE <<>>
    IN  IF decomp = <<>> THEN chuuren ELSE chuuren \o daisangen \o suuankou

\* decomp is None (<<>>) or <<Decomposition>>; win_idx is None or <<index>>
_yakuman_from_tiles(full14_counts, full14_norm, win_type, decomp, win_idx) ==
    IF is_agari_kokushi(full14_counts) THEN <<Yakuman("Kokushi Musou", 1)>>
    ELSE
    LET su == _suits_used(full14_norm)
        chuuren ==
            IF Cardinality(su.suits) = 1 /\ ~su.has_honors
            THEN LET b == chuuren_base(suit_offset(CHOOSE x \in su.suits : TRUE))
                     ok == \A i \in Indices : full14_counts[i] >= b[i]
                     extra == SumFrom([i \in Indices |-> full14_counts[i] - b[i]], 0, 33)
                 IN  IF ok /\ extra = 1 THEN <<Yakuman("Chuuren Poutou", 1)>> ELSE <<>>
            ELSE <<>>
        d == decomp[1]
        triplet(k) == d.melds[k].kind \in {"pon", "kan"}
        daisangen ==
            IF \A di \in {31, 32, 33} :
                   \E k \in 1..Len(d.melds) : triplet(k) /\ d.melds[k].tiles[1] = di
            THEN <<Yakuman("Daisangen", 1)>> ELSE <<>>
        suuankou ==
            IF Cardinality({k \in 1..Len(d.melds) : triplet(k)}) = 4 /\ win_idx # <<>>
            THEN IF win_type = "tsumo" THEN <<Yakuman("Suuankou", 1)>>
                 ELSE IF d.pair = win_idx[1] THEN <<Yakuman("Suuankou Tanki", 2)>>
                 ELSE <<>>
            ELSE <<>>
    IN  IF decomp = <<>> THEN chuuren ELSE chuuren \o daisangen \o suuankou

\* sum(y.han_closed for y in yaku), sum(y.multiplier for y in yakuman)
SumField(xs, f) == SumFrom([k \in 0..(Len(xs) - 1) |-> xs[k + 1][f]], 0, Len(xs) - 1)

NoYaku == Err("Winning hand has no yaku (dora/aka-dora do not count as yaku).")

\* the context with a hand closed only when nothing is declared
score_context_undeclared(c, e) ==
    LET full_norm == [k \in 1..Len(c.hand_raw) |-> red_five_to_five(c.hand_raw[k])]
                         \o <<red_five_to_five(c.win_raw)>>
    IN  [full_norm |-> full_norm,
         full_counts |-> e.full_counts,
         aka_dora |-> _aka_dora_han(c.hand_raw, c.win_raw),
         dora_han |-> _dora_han(full_norm, c.dora_raw),
         is_closed |-> e.fixed_melds = <<>>,
         total_kans |-> Len(c.ankan_tiles) + Len(c.kan_tiles),
         win_idx |-> tile_to_index(red_five_to_five(c.win_raw)).val]

\* what score_points_from_config computes once, before the special hands:
\* full_norm, dora_tiles_raw, aka_dora, dora_han, is_closed, total_kans, win_idx
score_context(c, e) ==
    LET full_norm == [k \in 1..Len(c.hand_raw) |-> red_five_to_five(c.hand_raw[k])]
                         \o <<red_five_to_five(c.win_raw)>>
    IN  [full_norm |-> full_norm,
         full_counts |-> e.full_counts,
         aka_dora |-> _aka_dora_han(c.hand_raw, c.win_raw),
         dora_han |-> _dora_han(full_norm, c.dora_raw),
         is_closed |-> \A k \in 1..Len(e.fixed_melds) : ~e.fixed_melds[k].open,
         total_kans |-> Len(c.ankan_tiles) + Len(c.kan_tiles),
         win_idx |-> tile_to_index(red_five_to_five(c.win_raw)).val]

\* the ScoreBreakdown of a yakuman hand
yakuman_breakdown(c, x, yakuman) ==
    LET p == estimate_yakuman_points(SumField(yakuman, "multiplier"), c.is_dealer, c.win_type)
    IN  IF ~p.ok THEN p
        ELSE Ok(ScoreBreakdown(c.win_type, c.is_dealer, c.hand_raw, c.win_raw, x.full_norm,
                               <<>>, yakuman, 0, None, 0, 0, p.val))

\* the ScoreBreakdown of a hand with the yaku list yaku and fu
yaku_breakdown(c, x, yaku, fu) ==
    LET han == SumField(yaku, "han_closed") + x.dora_han + x.aka_dora
        p == estimate_points(han, fu, c.is_dealer, c.win_type)
    IN  IF yaku = <<>> THEN NoYaku
        ELSE IF ~p.ok THEN p
        ELSE Ok(ScoreBreakdown(c.win_type, c.is_dealer, c.hand_raw, c.win_raw, x.full_norm,
                               yaku, <<>>, han, Some(fu), x.dora_han, x.aka_dora, p.val))

\* the chiitoitsu branch
chiitoitsu_breakdown(c, x) ==
    yaku_breakdown(c, x,
                   <<Yaku("Chiitoitsu", 2)>>
                       \o (IF c.riichi THEN <<Yaku("Riichi", 1)>> ELSE <<>>)
                       \o (IF c.win_type = "tsumo" /\ x.is_closed
                           THEN <<Yaku("Menzen Tsumo", 1)>> ELSE <<>>),
                   25)

\* the yaku list of one decomposition, in the order the code appends
standard_yaku(c, x, decomp) ==
    LET su == _suits_used(x.full_norm)
        is_pinfu == /\ x.is_closed
                    /\ _is_pinfu_candidate(decomp, c.seat_wind, c.round_wind)
                    /\ _wait_fu(decomp, x.win_idx) = 0
    IN  (IF c.riichi THEN <<Yaku("Riichi", 1)>> ELSE <<>>)
        \o (IF c.win_type = "tsumo" /\ x.is_closed THEN <<Yaku("Menzen Tsumo", 1)>> ELSE <<>>)
        \o (IF x.total_kans = 3 THEN <<Yaku("Sankantsu", 2)>> ELSE <<>>)
        \o (IF _is_all_simples(x.full_norm) THEN <<Yaku("Tanyao", 1)>> ELSE <<>>)
        \o (IF Cardinality(su.suits) = 1
            THEN (IF su.has_honors
                  THEN <<Yaku("Honitsu", IF x.is_closed THEN 3 ELSE 2)>>
                  ELSE <<Yaku("Chinitsu", IF x.is_closed THEN 6 ELSE 5)>>)
            ELSE <<>>)
        \o (IF _is_toitoi(decomp) THEN <<Yaku("Toitoi", 2)>> ELSE <<>>)
        \o Repeat(Yaku("Yakuhai", 1), _yakuhai_han(decomp, c.seat_wind, c.round_wind))
        \o (IF is_pinfu THEN <<Yaku("Pinfu", 1)>> ELSE <<>>)

\* the loop body with Suukantsu added to the yakuman found on the tiles
candidate_stacking(c, x, decomp) ==
    LET found == _yakuman_from_tiles(x.full_counts, x.full_norm, c.win_type,
                                     Some(decomp), Some(x.win_idx))
        yakuman == IF x.total_kans = 4 THEN found \o <<Yakuman("Suukantsu", 1)>> ELSE found
        yaku == standard_yaku(c, x, decomp)
        is_pinfu == \E k \in 1..Len(yaku) : yaku[k].name = "Pinfu"
    IN  IF yakuman # <<>> THEN yakuman_breakdown(c, x, yakuman)
        ELSE yaku_breakdown(c, x, yaku,
                            _fu_standard(decomp, c.win_type, x.win_idx, c.seat_wind,
                                         c.round_wind, is_pinfu, x.is_closed))

\* cand: the body of the loop over decomps for one decomposition
candidate(c, x, decomp) ==
    LET found == _yakuman_from_tiles(x.full_counts, x.full_norm, c.win_type,
                                     Some(decomp), Some(x.win_idx))
        yakuman == IF x.total_kans = 4 THEN <<Yakuman("Suukantsu", 1)>> ELSE found
        yaku == standard_yaku(c, x, decomp)
        is_pinfu == \E k \in 1..Len(yaku) : yaku[k].name = "Pinfu"
    IN  IF yakuman # <<>> THEN yakuman_breakdown(c, x, yakuman)
        ELSE yaku_breakdown(c, x, yaku,
                            _fu_standard(decomp, c.win_type, x.win_idx, c.seat_wind,
                                         c.round_wind, is_pinfu, x.is_closed))

\* total_points(sb): the ron value, else the tsumo total, else 0
total_points(sb) ==
    IF sb.points.ron_points # None THEN sb.points.ron_points[1]
    ELSE OrZero(tsumo_total_points(sb.points))

\* the loop keeping the later of two candidates with equal totals
RECURSIVE best_from_last(_, _, _, _, _)
best_from_last(c, x, ds, k, best) ==
    IF k > Len(ds) THEN Ok(best[1])
    ELSE LET cand == candidate(c, x, ds[k])
         IN  IF ~cand.ok THEN cand
             ELSE best_from_last(c, x, ds, k + 1,
                                 IF best = None THEN Some(cand.val)
                                 ELSE IF total_points(cand.val) >= total_points(best[1])
                                      THEN Some(cand.val)
                                      ELSE best)

\* the loop over decomps from position k on, best being None or <<ScoreBreakdown>>
RECURSIVE best_from(_, _, _, _, _)
best_from(c, x, ds, k, best) ==
    IF k > Len(ds) THEN Ok(best[1])
    ELSE LET cand == candidate(c, x, ds[k])
         IN  IF ~cand.ok THEN cand
             ELSE best_from(c, x, ds, k + 1,
                            IF best = None THEN Some(cand.val)
                            ELSE IF total_points(cand.val) > total_points(best[1])
                                 THEN Some(cand.val)
                                 ELSE best)

\* score_points_from_config after the fixed melds: r is standard_decomps(c, e)
score_from(c, e, r) ==
    LET x == score_context(c, e)
    IN  IF r.stage = "error" THEN r.decomps
        ELSE IF r.stage = "kokushi" THEN yakuman_breakdown(c, x, <<Yakuman("Kokushi Musou", 1)>>)
        ELSE IF r.stage = "chiitoitsu" THEN chiitoitsu_breakdown(c, x)
        ELSE best_from(c, x, r.decomps.val, 1, None)

score_points_from_config(c) ==
    IF c.win_type \notin {"tsumo", "ron"} THEN Err("win_type must be 'tsumo' or 'ron'")
    ELSE LET e == extract_fixed_melds(c)
         IN  IF ~e.ok THEN e ELSE score_from(c, e.val, standard_decomps(c, e.val))

(***************************************************************************)
(* main.py: the check for more than four copies of a tile                  *)
(***************************************************************************)
\* over.sort(key=lambda x: _tile_sort_key(x[0]))
RECURSIVE OverInsert(_, _)
OverInsert(sorted, e) ==
    IF sorted = <<>> THEN <<e>>
    ELSE IF KeyLess(_tile_sort_key(e[1]), _tile_sort_key(sorted[Len(sorted)][1]))
         THEN Append(OverInsert(SubSeq(sorted, 1, Len(sorted) - 1), e), sorted[Len(sorted)])
         ELSE Append(sorted, e)

\* the entries (tile, count) of slots 0..i with a count above 4, sorted
RECURSIVE over_upto(_, _)
over_upto(counts_v, i) ==
    IF i < 0 THEN <<>>
    ELSE IF counts_v[i] > 4
         THEN OverInsert(over_upto(counts_v, i - 1), <<index_to_tile(i).val, counts_v[i]>>)
         ELSE over_upto(counts_v, i - 1)

_validate_no_more_than_four(tiles) ==
    over_upto([i \in Indices |->
                   Cardinality({k \in 1..Len(tiles) : tile_to_index(tiles[k]).val = i})],
              NumTiles - 1)

(***************************************************************************)
(* State                                                                   *)
(***************************************************************************)
VARIABLES
    counts,       \* main.py: the count vector of the hand under analysis
    pc,           \* "loaded" | "analysed"
    sh,           \* main.py: sh, the ShantenResult of counts
    waits,        \* main.py: waits, the TenpaiWaits of counts (13 tiles only)
    lastMove,     \* "none" | "draw" | "discard": how counts was obtained
    moveTile,     \* the slot drawn or discarded by lastMove, -1 if none
    prevCounts,   \* the hand before lastMove
    prevSh        \* its ShantenResult

handVars == <<counts, pc, sh, waits, lastMove, moveTile, prevCounts, prevSh>>

VARIABLES
    text,         \* main.py: hand_str, the text handed to parse_tiles
    parsed,       \* main.py: hand_tiles = parse_tiles(hand_str)
    counted,      \* shanten.py 22: tiles_to_counts(hand_tiles)
    rt            \* one conversion index -> token -> index or token -> index -> token

codecVars == <<text, parsed, counted, rt>>

VARIABLES
    cfg,          \* scoring.py: the arguments of score_points_from_config
    stage,        \* "input" | "extracted" | "decomposed" | "special" | "error"
    ext,          \* scoring.py 426-493: fixed_melds, full_counts, total_kans
    decomps,      \* scoring.py 574: decomps, or the error raised on the way
    decompsAll,   \* _decompose_standard_all(full_counts)
    result        \* scoring.py: the ScoreBreakdown returned, or the error raised

scoreVars == <<cfg, stage, ext, decomps, decompsAll, result>>

VARIABLES
    pin,          \* points.py: which estimate is asked for, and its arguments
    base,         \* points.py: base, the base points the payouts are made from
    pts           \* points.py: the PointsResult returned, or the error raised

pointVars == <<pin, base, pts>>

VARIABLES
    memoShanten,  \* shanten.py 62: the lru_cache of _shanten_standard_general
    memoMeldable, \* tenpai.py 65: the lru_cache of _suit_meldable
    memoFound,    \* the two tables as the last call found them
    callOp,       \* the function called last, "none" before the first call
    given,        \* the count vector handed to the last call
    arg,          \* the caller's list after the last call
    ret,          \* what the last call returned
    ncalls        \* the number of calls made

memoVars == <<memoShanten, memoMeldable, memoFound, callOp, given, arg, ret, ncalls>>

vars == <<counts, pc, sh, waits, lastMove, moveTile, prevCounts, prevSh,
          text, parsed, counted, rt,
          cfg, stage, ext, decomps, decompsAll, result,
          pin, base, pts,
          memoShanten, memoMeldable, memoFound, callOp, given, arg, ret, ncalls>>

NoRoundTrip == [kind |-> "none", inIdx |-> -1, inTok |-> <<>>,
                mid |-> NotEvaluated, out |-> NotEvaluated]

HandIdle ==
    /\ counts = ZeroCounts
    /\ pc = "idle"
    /\ sh = [standard |-> 99, chiitoitsu |-> 99, kokushi |-> 99]
    /\ waits = NotEvaluated
    /\ lastMove = "none"
    /\ moveTile = -1
    /\ prevCounts = ZeroCounts
    /\ prevSh = [standard |-> 99, chiitoitsu |-> 99, kokushi |-> 99]

CodecIdle ==
    /\ text = <<>>
    /\ parsed = NotEvaluated
    /\ counted = NotEvaluated
    /\ rt = NoRoundTrip

NoConfig == [hand_raw |-> <<>>, win_raw |-> <<>>, win_type |-> "ron", is_dealer |-> FALSE,
             dora_raw |-> <<>>, seat_wind |-> <<"E">>, round_wind |-> <<"E">>,
             riichi |-> FALSE, furo_sets |-> 0,
             kan_sets |-> 0, ankan_tiles |-> <<>>, kan_tiles |-> <<>>]

ScoreIdle ==
    /\ cfg = NoConfig
    /\ stage = "idle"
    /\ ext = NotEvaluated
    /\ decomps = NotEvaluated
    /\ decompsAll = NotEvaluated
    /\ result = NotEvaluated

NoPointsInput == [fn |-> "none", han |-> 0, fu |-> 0, yakuman_multiplier |-> 0,
                  is_dealer |-> FALSE, win_type |-> "none"]

PointsIdle ==
    /\ pin = NoPointsInput
    /\ base = 0
    /\ pts = NotEvaluated

MemoIdle ==
    /\ memoShanten = {}
    /\ memoMeldable = {}
    /\ memoFound = [shanten |-> {}, meldable |-> {}]
    /\ callOp = "none"
    /\ given = ZeroCounts
    /\ arg = ZeroCounts
    /\ ret = NotEvaluated
    /\ ncalls = 0

(***************************************************************************)
(* Hands under analysis (main.py, tenpai mode)                             *)
(***************************************************************************)
Tm(n) == <<DigitChars[n], "m">>
Tp(n) == <<DigitChars[n], "p">>
Ts(n) == <<DigitChars[n], "s">>
Th(name) == <<name>>

SeedHands == <<
    \* 1m..9m E E S S: standard waits E, S
    <<Tm(1), Tm(2), Tm(3), Tm(4), Tm(5), Tm(6), Tm(7), Tm(8), Tm(9),
      Th("E"), Th("E"), Th("S"), Th("S")>>,
    \* E x4 and five pairs minus one tile: six pairs in five slots plus a quad
    <<Th("E"), Th("E"), Th("E"), Th("E"), Th("S"), Th("S"), Th("W"), Th("W"),
      Th("N"), Th("N"), Th("P"), Th("P"), Th("F")>>,
    \* thirteen orphans, thirteen-sided
    <<Tm(1), Tm(9), Tp(1), Tp(9), Ts(1), Ts(9),
      Th("E"), Th("S"), Th("W"), Th("N"), Th("P"), Th("F"), Th("C")>>,
    \* four melds and a single 1m of which all four copies are held
    <<Tm(1), Tm(1), Tm(1), Tm(1), Th("E"), Th("E"), Th("E"), Th("S"), Th("S"), Th("S"),
      Th("W"), Th("W"), Th("W")>>,
    \* six distinct pairs and a single
    <<Tm(2), Tm(2), Tm(3), Tm(3), Tm(4), Tm(4), Th("E"), Th("E"), Th("S"), Th("S"),
      Th("W"), Th("W"), Th("N")>>,
    \* far from every winning shape
    <<Tm(1), Tm(4), Tm(7), Tp(2), Tp(5), Tp(8), Ts(3), Ts(6), Ts(9),
      Th("E"), Th("W"), Th("P"), Th("C")>>,
    \* thirteen orphans, one-sided
    <<Tm(1), Tm(9), Tp(1), Tp(9), Ts(1), Ts(9),
      Th("E"), Th("S"), Th("W"), Th("N"), Th("P"), Th("F"), Th("F")>>,
    \* 1112345678999m
    <<Tm(1), Tm(1), Tm(1), Tm(2), Tm(3), Tm(4), Tm(5), Tm(6), Tm(7), Tm(8),
      Tm(9), Tm(9), Tm(9)>>
>>

\* the slots a draw may add, in the order the bound admits them
DrawOrder == <<32, 27, 30, 0, 33, 8, 4, 13>>

NumSeeds == 6
NumDraws == 4

NoShanten == [standard |-> 99, chiitoitsu |-> 99, kokushi |-> 99]
NoWaits == NotEvaluated

InitHand ==
    /\ \E k \in 1..NumSeeds : counts = tiles_to_counts(SeedHands[k]).val
    /\ pc = "loaded"
    /\ sh = NoShanten
    /\ waits = NoWaits
    /\ lastMove = "none"
    /\ moveTile = -1
    /\ prevCounts = ZeroCounts
    /\ prevSh = NoShanten
    /\ CodecIdle
    /\ ScoreIdle
    /\ PointsIdle
    /\ MemoIdle

\* main.py 206 and 227-229: shanten of the hand, and its waits when it has 13 tiles
Analyse ==
    /\ pc = "loaded"
    /\ sh' = ShantenResult(counts)
    /\ waits' = IF _total_tiles(counts) = 13 THEN tenpai_waits_for_13(counts) ELSE NoWaits
    /\ pc' = "analysed"
    /\ UNCHANGED <<counts, lastMove, moveTile, prevCounts, prevSh>>
    /\ UNCHANGED <<codecVars, scoreVars, pointVars, memoVars>>

\* main.py 98-102: one more tile of a slot that holds fewer than four
Draw(t) ==
    /\ pc = "analysed"
    /\ lastMove = "none"
    /\ _total_tiles(counts) = 13
    /\ counts[t] < 4
    /\ counts' = [counts EXCEPT ![t] = @ + 1]
    /\ prevCounts' = counts
    /\ prevSh' = sh
    /\ lastMove' = "draw"
    /\ moveTile' = t
    /\ pc' = "loaded"
    /\ sh' = NoShanten
    /\ waits' = NoWaits
    /\ UNCHANGED <<codecVars, scoreVars, pointVars, memoVars>>

\* main.py 104-108: one tile less of a slot that is held
Discard(x) ==
    /\ pc = "analysed"
    /\ lastMove = "draw"
    /\ _total_tiles(counts) = 14
    /\ counts[x] > 0
    /\ counts' = [counts EXCEPT ![x] = @ - 1]
    /\ prevCounts' = counts
    /\ prevSh' = sh
    /\ lastMove' = "discard"
    /\ moveTile' = x
    /\ pc' = "loaded"
    /\ sh' = NoShanten
    /\ waits' = NoWaits
    /\ UNCHANGED <<codecVars, scoreVars, pointVars, memoVars>>

NextHand ==
    \/ Analyse
    \/ \E k \in 1..NumDraws : Draw(DrawOrder[k])
    \/ \E x \in Indices : Discard(x)

SpecHand == InitHand /\ [][NextHand]_vars

(***************************************************************************)
(* Tile codec (tiles.py) driven as main.py drives it: a text is parsed,    *)
(* its tokens are counted; single tiles are converted back and forth.      *)
(***************************************************************************)
\* the characters a text is typed from
TextChars == {"1", "0", "m", "E", "x", " ", ","}

MaxText == 4

\* section 6, tile token alphabet
CanonicalTokens ==
    {<<d, u>> : d \in {"1", "2", "3", "4", "5", "6", "7", "8", "9"}, u \in {"m", "p", "s"}}
    \cup {<<"E">>, <<"S">>, <<"W">>, <<"N">>, <<"P">>, <<"F">>, <<"C">>}

RedFives == {<<"0", "m">>, <<"0", "p">>, <<"0", "s">>}

TileAlphabet == CanonicalTokens \cup RedFives

InitCodec ==
    /\ CodecIdle
    /\ HandIdle
    /\ ScoreIdle
    /\ PointsIdle
    /\ MemoIdle

\* one more character of the text
TypeChar(ch) ==
    /\ rt.kind = "none"
    /\ parsed = NotEvaluated
    /\ Len(text) < MaxText
    /\ text' = Append(text, ch)
    /\ UNCHANGED <<parsed, counted, rt>>
    /\ UNCHANGED <<handVars, scoreVars, pointVars, memoVars>>

\* main.py 186: hand_tiles = parse_tiles(hand_str)
Parse ==
    /\ rt.kind = "none"
    /\ parsed = NotEvaluated
    /\ text # <<>>
    /\ parsed' = parse_tiles(text)
    /\ UNCHANGED <<text, counted, rt>>
    /\ UNCHANGED <<handVars, scoreVars, pointVars, memoVars>>

\* shanten.py 22: counts = tiles_to_counts(hand_tiles)
Count ==
    /\ parsed # NotEvaluated
    /\ parsed.ok
    /\ counted = NotEvaluated
    /\ counted' = tiles_to_counts(parsed.val)
    /\ UNCHANGED <<text, parsed, rt>>
    /\ UNCHANGED <<handVars, scoreVars, pointVars, memoVars>>

\* tile_to_index(index_to_tile(i))
IndexRoundTrip(i) ==
    /\ rt.kind = "none"
    /\ text = <<>>
    /\ LET mid == index_to_tile(i)
       IN  rt' = [kind |-> "index", inIdx |-> i, inTok |-> <<>>, mid |-> mid,
                  out |-> IF mid.ok THEN tile_to_index(mid.val) ELSE mid]
    /\ UNCHANGED <<text, parsed, counted>>
    /\ UNCHANGED <<handVars, scoreVars, pointVars, memoVars>>

\* index_to_tile(tile_to_index(t))
TokenRoundTrip(t) ==
    /\ rt.kind = "none"
    /\ text = <<>>
    /\ LET mid == tile_to_index(t)
       IN  rt' = [kind |-> "token", inIdx |-> -1, inTok |-> t, mid |-> mid,
                  out |-> IF mid.ok THEN index_to_tile(mid.val) ELSE mid]
    /\ UNCHANGED <<text, parsed, counted>>
    /\ UNCHANGED <<handVars, scoreVars, pointVars, memoVars>>

NextCodec ==
    \/ \E ch \in TextChars : TypeChar(ch)
    \/ Parse
    \/ Count
    \/ \E i \in -1..NumTiles : IndexRoundTrip(i)
    \/ \E t \in TileAlphabet \cup {<<"x">>, <<"1", "x">>, <<>>} : TokenRoundTrip(t)

SpecCodec == InitCodec /\ [][NextCodec]_vars

(***************************************************************************)
(* Specification of the decomposition engine: a scoring configuration is   *)
(* put together from a pair, concealed melds and declared melds; the       *)
(* scoring pipeline extracts the fixed melds and decomposes the rest       *)
(***************************************************************************)
\* meld codes offered to the concealed and declared parts of a hand
\* (111m, 123m, 789m, EEE, PPP, 456m) and the pair slots (N, 5m, 2m)
MeldOrder == <<0, 34, 40, 27, 31, 37>>
PairOrder == <<30, 4, 1>>
NumMelds == 4
NumPairs == 2
MaxFixed == 2
\* a winning tile that fits none of the melds above: 1p
ExtraWin == 9

MeldPool == {MeldOrder[k] : k \in 1..Min2(NumMelds, Len(MeldOrder))}
PairPool == {PairOrder[k] : k \in 1..Min2(NumPairs, Len(PairOrder))}

\* how a meld can be declared: a triplet as open pon, open kan or ankan, a
\* sequence as open chi
Declarations ==
    UNION {{<<code, kind>> : kind \in (IF code < 34 THEN {"pon", "kan", "ankan"} ELSE {"chi"})} :
           code \in MeldPool}

\* a pair, 4 - f concealed melds (as a multiset) and f declared melds
HandPlans ==
    UNION {[pair : PairPool,
            concealed : {ms \in [1..(4 - f) -> MeldPool] :
                             \A k \in 1..(3 - f) : ms[k] <= ms[k + 1]},
            fixed : [1..f -> Declarations]] : f \in 0..Min2(MaxFixed, 4)}

Tok(i) == index_to_tile(i).val

\* the concealed tiles of a plan, as indices
ConcealedTiles(h) ==
    <<h.pair, h.pair>> \o ConcatAll([k \in 1..Len(h.concealed) |-> MeldTiles(h.concealed[k])])

DeclaredTiles(d) ==
    IF d[2] \in {"kan", "ankan"} THEN Repeat(d[1], 4) ELSE MeldTiles(d[1])

CountsOf(idxs) == [i \in Indices |-> Cardinality({k \in 1..Len(idxs) : idxs[k] = i})]

PlanCounts(h) ==
    CountsOf(ConcealedTiles(h) \o ConcatAll([k \in 1..Len(h.fixed) |-> DeclaredTiles(h.fixed[k])]))

\* out: list[int] with i repeated counts[i] times, ascending
_counts_to_tiles(c) ==
    LET slots == [k \in 1..(4 * NumTiles) |-> <<(k - 1) \div 4, (k - 1) % 4>>]
        kept == SelectSeq(slots, LAMBDA x : x[2] < c[x[1]])
    IN  [k \in 1..Len(kept) |-> kept[k][1]]

\* the first five of a suit written as its red five
WithRedIn(toks, suit) ==
    LET at == {k \in 1..Len(toks) : toks[k] = <<"5", suit>>}
    IN  IF at = {} THEN toks ELSE [toks EXCEPT ![SetMin(at)] = <<"0", suit>>]

\* the first 5m of the tokens written as the red five 0m
WithRedFive(toks) == WithRedIn(toks, "m")

\* the configuration of plan h when tile r is the one still missing from the
\* concealed part and is the winning tile: hand = concealed tiles, ankan
\* tiles, open pon/chi tiles, open kan tiles
PlanConfig(h, r) ==
    LET concealed == _counts_to_tiles([CountsOf(ConcealedTiles(h)) EXCEPT ![r] = @ - 1])
        ankans == SelectSeq(h.fixed, LAMBDA d : d[2] = "ankan")
        open3 == SelectSeq(h.fixed, LAMBDA d : d[2] \in {"pon", "chi"})
        okans == SelectSeq(h.fixed, LAMBDA d : d[2] = "kan")
        tiles == concealed
                     \o ConcatAll([k \in 1..Len(ankans) |-> DeclaredTiles(ankans[k])])
                     \o ConcatAll([k \in 1..Len(open3) |-> DeclaredTiles(open3[k])])
                     \o ConcatAll([k \in 1..Len(okans) |-> DeclaredTiles(okans[k])])
    IN  [hand_raw |-> [k \in 1..Len(tiles) |-> Tok(tiles[k])],
         win_raw |-> Tok(r),
         win_type |-> "ron",
         is_dealer |-> FALSE,
         dora_raw |-> <<>>,
         seat_wind |-> <<"E">>,
         round_wind |-> <<"E">>,
         riichi |-> FALSE,
         furo_sets |-> Len(open3) + Len(okans),
         kan_sets |-> Len(okans),
         ankan_tiles |-> [k \in 1..Len(ankans) |-> Tok(ankans[k][1])],
         kan_tiles |-> [k \in 1..Len(okans) |-> Tok(okans[k][1])]]

\* the same hand won on w, with or without a red five, with or without riichi
Variant(c, w, red, riichi) ==
    [c EXCEPT !.hand_raw = IF red THEN WithRedFive(@) ELSE @,
              !.win_raw = Tok(w),
              !.riichi = riichi]

HandConfig(h, r, w, red, riichi) == Variant(PlanConfig(h, r), w, red, riichi)

\* the tile that is missing: the pair tile or the lowest tile of a concealed meld
Removable(h) == {h.pair} \cup {MeldTiles(h.concealed[k])[1] : k \in 1..Len(h.concealed)}

\* no tile more than four times
Playable(h) == LET c == PlanCounts(h) IN \A i \in Indices : c[i] <= 4

\* configurations outside the plans: the special hands, four declared melds
\* and the inputs the pipeline rejects
ClosedConfig ==
    HandConfig([pair |-> 30, concealed |-> <<0, 34, 40, 27>>, fixed |-> <<>>], 30, 30, FALSE, FALSE)

OpenKanConfig ==
    HandConfig([pair |-> 30, concealed |-> <<0, 34, 40>>, fixed |-> <<<<27, "kan">>>>],
               30, 30, FALSE, FALSE)

FourFixedConfig ==
    HandConfig([pair |-> 30, concealed |-> <<>>,
                fixed |-> <<<<0, "pon">>, <<40, "chi">>, <<27, "ankan">>, <<31, "kan">>>>],
               30, 30, FALSE, FALSE)

KokushiConfig ==
    [NoConfig EXCEPT
        !.hand_raw = [k \in 1..13 |-> Tok(<<0, 8, 9, 17, 18, 26, 27, 28, 29, 30, 31, 32, 33>>[k])],
        !.win_raw = Tok(27)]

ChiitoitsuConfig ==
    [NoConfig EXCEPT
        !.hand_raw = [k \in 1..13 |-> Tok(<<0, 0, 1, 1, 2, 2, 9, 9, 27, 27, 30, 30, 33>>[k])],
        !.win_raw = Tok(33)]

SpecialConfigs ==
    {FourFixedConfig, KokushiConfig, ChiitoitsuConfig,
     [ChiitoitsuConfig EXCEPT !.riichi = TRUE],
     \* kan_sets without kan_tiles; an open kan without an open meld
     [ClosedConfig EXCEPT !.kan_sets = 1],
     [ClosedConfig EXCEPT !.kan_sets = 1, !.kan_tiles = <<Tok(27)>>],
     \* twelve tiles
     [ClosedConfig EXCEPT !.hand_raw = Tail(@)],
     \* an open kan of E E E N; an open kan of E that kan_tiles does not list
     [ClosedConfig EXCEPT !.hand_raw = <<Tok(9)>> \o @, !.furo_sets = 1, !.kan_sets = 1,
                          !.kan_tiles = <<Tok(27)>>],
     [OpenKanConfig EXCEPT !.kan_tiles = <<Tok(28)>>],
     \* open melds E E N, 1m 1m 2m, E E x
     [ClosedConfig EXCEPT !.furo_sets = 1],
     [ClosedConfig EXCEPT !.furo_sets = 1, !.hand_raw = SubSeq(@, 6, 13) \o SubSeq(@, 1, 5)],
     [ClosedConfig EXCEPT !.furo_sets = 1, !.hand_raw = SubSeq(@, 1, 12) \o <<<<"x">>>>],
     \* an open pon x x x; an ankan of x; a winning tile x
     [ClosedConfig EXCEPT !.furo_sets = 1,
                          !.hand_raw = SubSeq(@, 1, 10) \o <<<<"x">>, <<"x">>, <<"x">>>>],
     [ClosedConfig EXCEPT !.hand_raw = <<Tok(9)>> \o @, !.ankan_tiles = <<<<"x">>>>],
     [ClosedConfig EXCEPT !.win_raw = <<"x">>],
     \* an ankan of C with no C in the hand; five declared melds
     [ClosedConfig EXCEPT !.hand_raw = <<Tok(9)>> \o @, !.ankan_tiles = <<Tok(33)>>],
     [HandConfig([pair |-> 30, concealed |-> <<>>,
                  fixed |-> <<<<0, "pon">>, <<34, "chi">>, <<40, "chi">>, <<27, "pon">>>>],
                 30, 30, FALSE, FALSE)
         EXCEPT !.hand_raw = <<Tok(9)>> \o @, !.ankan_tiles = <<Tok(33)>>]}

InitDecomp ==
    /\ \/ \E h \in {g \in HandPlans : Playable(g)} : \E r \in Removable(h) :
              LET c == PlanConfig(h, r)
              IN  \E w \in {r, ExtraWin}, red \in BOOLEAN, riichi \in BOOLEAN :
                      cfg = Variant(c, w, red, riichi)
       \/ cfg \in SpecialConfigs
    /\ stage = "input"
    /\ ext = NotEvaluated
    /\ decomps = NotEvaluated
    /\ decompsAll = NotEvaluated
    /\ result = NotEvaluated
    /\ HandIdle
    /\ CodecIdle
    /\ PointsIdle
    /\ MemoIdle

\* score_points_from_config up to the decomposition of the standard hand
Decompose ==
    /\ stage = "input"
    /\ LET e == extract_fixed_melds(cfg)
           r == standard_decomps(cfg, e.val)
       IN  /\ ext' = e
           /\ stage' = IF e.ok THEN r.stage ELSE "error"
           /\ decomps' = IF e.ok THEN r.decomps ELSE e
    /\ UNCHANGED <<cfg, decompsAll, result>>
    /\ UNCHANGED <<handVars, codecVars, pointVars, memoVars>>

\* _decompose_standard_all on the count vector of hand + win tile
DecomposeAll ==
    /\ stage \notin {"idle", "input"}
    /\ decompsAll = NotEvaluated
    /\ LET full_norm == [k \in 1..Len(cfg.hand_raw) |-> red_five_to_five(cfg.hand_raw[k])]
                            \o <<red_five_to_five(cfg.win_raw)>>
           full_counts == tiles_to_counts(full_norm)
       IN  /\ full_counts.ok
           /\ decompsAll' = _decompose_standard_all(full_counts.val)
    /\ UNCHANGED <<cfg, stage, ext, decomps, result>>
    /\ UNCHANGED <<handVars, codecVars, pointVars, memoVars>>

NextDecomp ==
    \/ Decompose
    \/ DecomposeAll

SpecDecomp == InitDecomp /\ [][NextDecomp]_vars

(***************************************************************************)
(* Specification of the scoring engine: one call of                        *)
(* score_points_from_config on a generated winning hand, a special hand or *)
(* a rejected input, under every combination of the remaining arguments    *)
(***************************************************************************)
\* melds of the scored hands: 111m, 123m, 456p, EEE; pairs N and 8s
ScoreMelds == {0, 34, 46, 27}
ScorePairs == {30, 25}
\* the melds a scored hand may declare
ScoreDeclarations == {<<0, "pon">>, <<46, "chi">>, <<27, "kan">>, <<27, "ankan">>}
MaxDeclared == 1

ScorePlans ==
    UNION {[pair : ScorePairs,
            concealed : {ms \in [1..(4 - f) -> ScoreMelds] :
                             \A k \in 1..(3 - f) : ms[k] <= ms[k + 1]},
            fixed : [1..f -> ScoreDeclarations]] : f \in 0..Min2(MaxDeclared, 4)}

\* dora_text and red fives: none; dora 1m; dora 0p with the first 5p of the
\* hand a red five
Bonuses ==
    {[dora |-> <<>>, red |-> FALSE],
     [dora |-> <<Tok(0)>>, red |-> FALSE],
     [dora |-> <<<<"0", "p">>>>, red |-> TRUE]}

Winds == {Tok(27), Tok(30)}

\* configuration c with the remaining arguments filled in; the dealer is the
\* player seated East
ScoreVariant(c, win_type, riichi, seat_wind, round_wind, bonus) ==
    [c EXCEPT !.win_type = win_type,
              !.is_dealer = (seat_wind = Tok(27)),
              !.riichi = riichi,
              !.seat_wind = seat_wind,
              !.round_wind = round_wind,
              !.dora_raw = bonus.dora,
              !.hand_raw = IF bonus.red THEN WithRedIn(@, "p") ELSE @]

\* a hand given tile by tile: 13 + kans tiles, the winning tile, the declared kans
TileConfig(hand, win, furo_sets, ankans, okans) ==
    [NoConfig EXCEPT !.hand_raw = [k \in 1..Len(hand) |-> Tok(hand[k])],
                     !.win_raw = Tok(win),
                     !.furo_sets = furo_sets,
                     !.kan_sets = Len(okans),
                     !.ankan_tiles = [k \in 1..Len(ankans) |-> Tok(ankans[k])],
                     !.kan_tiles = [k \in 1..Len(okans) |-> Tok(okans[k])]]

\* 2m 2m 3m 3m 4m 4m 5m 5m 6m 6m 7m 7m 8m won on 8m
SevenPairsRunConfig == TileConfig(<<1, 1, 2, 2, 3, 3, 4, 4, 5, 5, 6, 6, 7>>, 7, 0, <<>>, <<>>)

\* seven pairs 1m 5p 9p 1s E N C won on C; the same with four E and no N
SevenPairsConfig == TileConfig(<<0, 0, 13, 13, 17, 17, 18, 18, 27, 27, 30, 30, 33>>, 33, 0, <<>>, <<>>)
QuadPairsConfig == TileConfig(<<0, 0, 13, 13, 17, 17, 18, 18, 27, 27, 27, 27, 33>>, 33, 0, <<>>, <<>>)

\* seven pairs completed by the red five 0p
SevenPairsRedWinConfig ==
    [TileConfig(<<0, 0, 13, 17, 17, 18, 18, 27, 27, 30, 30, 33, 33>>, 13, 0, <<>>, <<>>)
         EXCEPT !.win_raw = <<"0", "p">>]

\* four kans and the pair N: ankans of 1m E P F; ankans of P F C 1m (the three
\* dragons); open kans of 1m E with ankans of P F; three ankans and a triplet
FourAnkanConfig ==
    TileConfig(<<30>> \o Repeat(0, 4) \o Repeat(27, 4) \o Repeat(31, 4) \o Repeat(32, 4),
               30, 0, <<0, 27, 31, 32>>, <<>>)
DragonKansConfig ==
    TileConfig(<<30>> \o Repeat(31, 4) \o Repeat(32, 4) \o Repeat(33, 4) \o Repeat(0, 4),
               30, 0, <<31, 32, 33, 0>>, <<>>)
MixedKansConfig ==
    TileConfig(<<30>> \o Repeat(31, 4) \o Repeat(32, 4) \o Repeat(0, 4) \o Repeat(27, 4),
               30, 2, <<31, 32>>, <<0, 27>>)
ThreeKansConfig ==
    TileConfig(<<30, 13, 13, 13>> \o Repeat(0, 4) \o Repeat(27, 4) \o Repeat(31, 4),
               30, 0, <<0, 27, 31>>, <<>>)
\* four kans with two tiles left that are no pair; four kans and an open pon
FourKansNoPairConfig ==
    TileConfig(<<30>> \o Repeat(0, 4) \o Repeat(27, 4) \o Repeat(31, 4) \o Repeat(32, 4),
               29, 0, <<0, 27, 31, 32>>, <<>>)
FourKansAndPonConfig ==
    TileConfig(<<30>> \o Repeat(0, 4) \o Repeat(27, 4) \o Repeat(31, 4) \o Repeat(32, 4),
               30, 1, <<0, 27, 31, 32>>, <<>>)

\* 1m 1m 1m 2m 3m 4m 5m 6m 7m 8m 9m 9m 9m won on 5m
NineGatesConfig == TileConfig(<<0, 0, 0, 1, 2, 3, 4, 5, 6, 7, 8, 8, 8>>, 4, 0, <<>>, <<>>)

\* 1m 1m 1m 2m 3m 4m 5m 6m 9m 9m won on 4m with the open chi 7m 8m 9m
OpenNineGatesConfig == TileConfig(<<0, 0, 0, 1, 2, 3, 4, 5, 8, 8, 6, 7, 8>>, 3, 1, <<>>, <<>>)

\* 1m 1m 1m 9m 9m 9m 1p 1p 1p 9p 9p 9p 5s won on 5s; 1m 1m 1m 9m 9m 9m 1p 1p 1p
\* 9p 9p 5s 5s won on 9p; 2p 2p 2p 5s 5s 5s E E E N won on N with the open pon
\* 1m 1m 1m
FourTripletsConfig == TileConfig(<<0, 0, 0, 8, 8, 8, 9, 9, 9, 17, 17, 17, 22>>, 22, 0, <<>>, <<>>)
TwoPairsWaitConfig == TileConfig(<<0, 0, 0, 8, 8, 8, 9, 9, 9, 17, 17, 22, 22>>, 17, 0, <<>>, <<>>)
OpenTripletsConfig == TileConfig(<<10, 10, 10, 22, 22, 22, 27, 27, 27, 30, 0, 0, 0>>, 30, 1, <<>>, <<>>)

\* 1m 1m 1m 1m 2m 2m 3m 3m 4p 5p 6p 8s 8s won on a fifth 1m
FiveCopiesConfig == TileConfig(<<0, 0, 0, 0, 1, 1, 2, 2, 12, 13, 14, 25, 25>>, 0, 0, <<>>, <<>>)

\* 1m 1m 1m P P P F F F C C C N won on N
DragonTripletsConfig == TileConfig(<<0, 0, 0, 31, 31, 31, 32, 32, 32, 33, 33, 33, 30>>, 30, 0, <<>>, <<>>)

\* 1m 2m 3m 3p 4p E E E 8s 8s won on 5p with the open chi 4p 5p 6p
SharedTileChiConfig == TileConfig(<<0, 1, 2, 11, 12, 27, 27, 27, 25, 25, 12, 13, 14>>, 13, 1, <<>>, <<>>)

\* hands scored under every combination of the remaining arguments
SpecialHands ==
    {SevenPairsRunConfig, SevenPairsConfig, QuadPairsConfig, SevenPairsRedWinConfig,
     KokushiConfig,
     FourAnkanConfig, DragonKansConfig, MixedKansConfig, ThreeKansConfig,
     FourKansNoPairConfig, FourKansAndPonConfig, NineGatesConfig,
     OpenNineGatesConfig, FourTripletsConfig, TwoPairsWaitConfig, OpenTripletsConfig,
     DragonTripletsConfig, SharedTileChiConfig, FiveCopiesConfig}

InitScore ==
    /\ \/ \E h \in {g \in ScorePlans : Playable(g)} : \E r \in Removable(h) :
              LET c == PlanConfig(h, r)
              IN  \E win_type \in {"tsumo", "ron"}, riichi \in BOOLEAN,
                     seat_wind \in Winds, round_wind \in Winds, bonus \in Bonuses :
                      cfg = ScoreVariant(c, win_type, riichi, seat_wind, round_wind, bonus)
       \/ \E c \in SpecialHands :
              \E win_type \in {"tsumo", "ron"}, riichi \in BOOLEAN,
                 seat_wind \in Winds, round_wind \in Winds, bonus \in Bonuses :
                  cfg = ScoreVariant(c, win_type, riichi, seat_wind, round_wind, bonus)
       \/ \E c \in SpecialConfigs, win_type \in {"tsumo", "ron", "both"} :
              cfg = [c EXCEPT !.win_type = win_type]
    /\ stage = "input"
    /\ ext = NotEvaluated
    /\ decomps = NotEvaluated
    /\ decompsAll = NotEvaluated
    /\ result = NotEvaluated
    /\ HandIdle
    /\ CodecIdle
    /\ PointsIdle
    /\ MemoIdle

\* score_points_from_config(**cfg)
Score ==
    /\ stage = "input"
    /\ IF cfg.win_type \notin {"tsumo", "ron"}
       THEN /\ stage' = "error"
            /\ result' = score_points_from_config(cfg)
            /\ UNCHANGED <<ext, decomps>>
       ELSE LET e == extract_fixed_melds(cfg)
                r == standard_decomps(cfg, e.val)
            IN  /\ ext' = e
                /\ stage' = IF e.ok THEN r.stage ELSE "error"
                /\ decomps' = IF e.ok THEN r.decomps ELSE e
                /\ result' = IF e.ok THEN score_from(cfg, e.val, r) ELSE e
    /\ UNCHANGED <<cfg, decompsAll>>
    /\ UNCHANGED <<handVars, codecVars, pointVars, memoVars>>

NextScore == Score

SpecScore == InitScore /\ [][NextScore]_vars

(***************************************************************************)
(* Specification of the points estimator: one call of estimate_points or   *)
(* estimate_yakuman_points on arguments drawn from the bounded ranges      *)
(***************************************************************************)
MaxHan == 14
MaxFu == 130
MaxMult == 3

PointsInputs ==
    [fn : {"estimate_points"}, han : 0..MaxHan, fu : 19..MaxFu, yakuman_multiplier : {0},
     is_dealer : BOOLEAN, win_type : WinTypes \cup {"chankan"}]
    \cup
    [fn : {"estimate_yakuman_points"}, han : {0}, fu : {0}, yakuman_multiplier : 0..MaxMult,
     is_dealer : BOOLEAN, win_type : WinTypes \cup {"chankan"}]

InitPoints ==
    /\ pin \in PointsInputs
    /\ base = 0
    /\ pts = NotEvaluated
    /\ HandIdle
    /\ CodecIdle
    /\ ScoreIdle
    /\ MemoIdle

EstimatePoints ==
    /\ pts = NotEvaluated
    /\ pin.fn = "estimate_points"
    /\ pts' = estimate_points(pin.han, pin.fu, pin.is_dealer, pin.win_type)
    /\ base' = IF pts'.ok THEN limited_base(pin.han, pin.fu)[1] ELSE 0
    /\ UNCHANGED pin
    /\ UNCHANGED <<handVars, codecVars, scoreVars, memoVars>>

EstimateYakumanPoints ==
    /\ pts = NotEvaluated
    /\ pin.fn = "estimate_yakuman_points"
    /\ pts' = estimate_yakuman_points(pin.yakuman_multiplier, pin.is_dealer, pin.win_type)
    /\ base' = IF pts'.ok THEN 8000 * pin.yakuman_multiplier ELSE 0
    /\ UNCHANGED pin
    /\ UNCHANGED <<handVars, codecVars, scoreVars, memoVars>>

NextPoints ==
    \/ EstimatePoints
    \/ EstimateYakumanPoints

SpecPoints == InitPoints /\ [][NextPoints]_vars

(***************************************************************************)
(* Specification of the memoised engine: a sequence of calls of the        *)
(* shanten and wait functions on hands of a pool, sharing the two          *)
(* lru_cache tables                                                        *)
(***************************************************************************)
\* 1m 2m 3m E E E S S S W W W N; the same with a second N; 1m 2m 4m E E E
\* S S S W W W N; the same with a second N
MemoHands ==
    {CountsOf(<<0, 1, 2, 27, 27, 27, 28, 28, 28, 29, 29, 29, 30>>),
     CountsOf(<<0, 1, 2, 27, 27, 27, 28, 28, 28, 29, 29, 29, 30, 30>>),
     CountsOf(<<0, 1, 3, 27, 27, 27, 28, 28, 28, 29, 29, 29, 30>>),
     CountsOf(<<0, 1, 3, 27, 27, 27, 28, 28, 28, 29, 29, 29, 30, 30>>)}

MaxCalls == 2

InitMemo ==
    /\ MemoIdle
    /\ HandIdle
    /\ CodecIdle
    /\ ScoreIdle
    /\ PointsIdle

\* the call op(h) found the tables as they are, left the caller's list as a
\* and returned r
Called(op, h, a, r) ==
    /\ ncalls < MaxCalls
    /\ ncalls' = ncalls + 1
    /\ memoFound' = [shanten |-> memoShanten, meldable |-> memoMeldable]
    /\ callOp' = op
    /\ given' = h
    /\ arg' = a
    /\ ret' = r
    /\ UNCHANGED <<handVars, codecVars, scoreVars, pointVars>>

\* shanten_standard(h)
ShantenStandard(h) ==
    \E r \in {shanten_standard_call(h, memoShanten)} :
        /\ Called("shanten_standard", h, r.counts, r.val)
        /\ memoShanten' = r.memo
        /\ UNCHANGED memoMeldable

\* shanten_chiitoitsu(h)
ShantenChiitoitsu(h) ==
    /\ Called("shanten_chiitoitsu", h, h, shanten_chiitoitsu(h))
    /\ UNCHANGED <<memoShanten, memoMeldable>>

\* shanten_kokushi(h)
ShantenKokushi(h) ==
    /\ Called("shanten_kokushi", h, h, shanten_kokushi(h))
    /\ UNCHANGED <<memoShanten, memoMeldable>>

\* is_agari_standard(h)
IsAgariStandard(h) ==
    \E r \in {is_agari_standard_call(h, memoMeldable)} :
        /\ Called("is_agari_standard", h, h, r.val)
        /\ memoMeldable' = r.memo
        /\ UNCHANGED memoShanten

\* tenpai_waits_for_13(h)
TenpaiWaitsFor13(h) ==
    \E r \in {tenpai_waits_for_13_call(h, memoMeldable)} :
        /\ Called("tenpai_waits_for_13", h, h, r.val)
        /\ memoMeldable' = r.memo
        /\ UNCHANGED memoShanten

NextMemo ==
    \E h \in MemoHands :
        \/ ShantenStandard(h)
        \/ ShantenChiitoitsu(h)
        \/ ShantenKokushi(h)
        \/ IsAgariStandard(h)
        \/ TenpaiWaitsFor13(h)

SpecMemo == InitMemo /\ [][NextMemo]_vars

(***************************************************************************)
(* Properties of the shanten engine, agari tester and wait enumerator      *)
(***************************************************************************)
SeqToSet(q) == {q[k] : k \in 1..Len(q)}

Analysed13 == pc = "analysed" /\ _total_tiles(counts) = 13
Analysed14 == pc = "analysed" /\ _total_tiles(counts) = 14

\* the tokens of the slots t with counts[t] < 4 whose 14-tile hand satisfies agari
CompletingTiles(c13, archetype) ==
    LET agari(c14) == IF archetype = "standard" THEN StandardAgariRef(c14)
                      ELSE IF archetype = "chiitoitsu" THEN is_agari_chiitoitsu(c14)
                      ELSE is_agari_kokushi(c14)
    IN  { index_to_tile(t).val :
            t \in {k \in Indices : c13[k] < 4 /\ agari([c13 EXCEPT ![k] = @ + 1])} }

C2_ShantenAgreesWithWaits ==
    Analysed13 => (waits.ok /\ (minimum(sh) = 0 <=> waits.val.is_tenpai))

\* C3: no shanten value, and not their minimum, is negative for a hand of
\* 13 or 14 tiles.
C3_ShantenNonNegative ==
    pc = "analysed" =>
        /\ sh.standard >= 0
        /\ sh.chiitoitsu >= 0
        /\ sh.kokushi >= 0
        /\ minimum(sh) >= 0

\* C4: after one tile is removed from a 14-tile hand that is_agari_chiitoitsu
\* accepts, shanten_chiitoitsu of the remaining 13 tiles is 0.
C4_ChiitoiAgariMinusOne ==
    (pc = "analysed" /\ lastMove = "discard" /\ is_agari_chiitoitsu(prevCounts))
        => sh.chiitoitsu = 0

\* C5: a 14-tile hand that is_agari_chiitoitsu accepts occupies exactly seven
\* slots and holds exactly two tiles in each of them.
C5_SevenDistinctPairs ==
    (Analysed14 /\ is_agari_chiitoitsu(counts)) =>
        /\ Cardinality({i \in Indices : counts[i] > 0}) = 7
        /\ \A i \in Indices : counts[i] \in {0, 2}

\* C6: adding a tile to a 13-tile hand does not raise standard shanten, and
\* removing a tile from a 14-tile hand raises it by at most 1.
C6_StandardMonotone ==
    /\ (pc = "analysed" /\ lastMove = "draw") => sh.standard <= prevSh.standard
    /\ (pc = "analysed" /\ lastMove = "discard") => sh.standard <= prevSh.standard + 1

\* a discard from a 14-tile hand has raised standard shanten by exactly 1, after
\* a draw that lowered nothing
C6_Witness ==
    /\ pc = "analysed"
    /\ lastMove = "discard"
    /\ _total_tiles(prevCounts) = 14
    /\ sh.standard = prevSh.standard + 1

(***************************************************************************)
(* Properties of the tile codec                                            *)
(***************************************************************************)
\* C7: index -> token -> index is the identity on the 34 slots 0..33, token ->
\* index -> token is the identity on the 34 canonical tokens, and the red
\* fives 0m, 0p, 0s have the index of 5m, 5p, 5s (4, 13, 22).
C7_CodecRoundTrip ==
    /\ (rt.kind = "index" /\ rt.inIdx \in 0..33) =>
          (rt.mid.ok /\ rt.out.ok /\ rt.out.val = rt.inIdx)
    /\ (rt.kind = "token" /\ rt.inTok \in CanonicalTokens) =>
          (rt.mid.ok /\ rt.mid.val \in 0..33 /\ rt.out.ok /\ rt.out.val = rt.inTok)
    /\ (rt.kind = "token" /\ rt.inTok \in RedFives) =>
          /\ rt.mid.ok
          /\ rt.mid.val = (IF rt.inTok[2] = "m" THEN 4 ELSE IF rt.inTok[2] = "p" THEN 13 ELSE 22)
          /\ rt.out = Ok(<<"5", rt.inTok[2]>>)

\* the red five 0p has been converted to slot 13 and back to 5p
C7_Witness ==
    /\ rt.kind = "token"
    /\ rt.inTok = <<"0", "p">>
    /\ rt.mid = Ok(13)
    /\ rt.out = Ok(<<"5", "p">>)

\* the whitespace- or comma-separated tokens of a text
TokensOf(txt) == SeqToSet(Split(ReplaceCommas(txt)))

\* C8: parse_tiles fails whenever a token of its input is outside the tile
\* alphabet, and never returns a sequence holding an unknown token.
C8_ParseRejectsUnknown ==
    parsed # NotEvaluated =>
        /\ (\E tok \in TokensOf(text) : tok \notin TileAlphabet) => ~parsed.ok
        /\ parsed.ok => \A k \in 1..Len(parsed.val) : parsed.val[k] \in TileAlphabet

(***************************************************************************)
(* Properties of the decomposition engine                                  *)
(***************************************************************************)
\* the tiles a meld stands for: four of its index for a kan, else its triple
TilesOfMeld(m) == IF m.kind = "kan" THEN Repeat(m.tiles[1], 4) ELSE m.tiles

\* pair x 2 + all meld tiles, as a count vector
DecompCounts(d) ==
    [i \in Indices |->
        (IF d.pair = i THEN 2 ELSE 0)
        + Cardinality({<<k, j>> \in (1..Len(d.melds)) \X (1..4) :
                          j <= Len(TilesOfMeld(d.melds[k])) /\ TilesOfMeld(d.melds[k])[j] = i})]

\* three consecutive indices inside one suit
ProperSequence(m) ==
    /\ m.tiles[1] \in 0..26
    /\ m.tiles[2] = m.tiles[1] + 1
    /\ m.tiles[3] = m.tiles[1] + 2
    /\ m.tiles[3] \div 9 = m.tiles[1] \div 9

WellFormed(d, full) ==
    /\ Len(d.melds) = 4
    /\ d.pair \in Indices
    /\ DecompCounts(d) = full
    /\ \A k \in 1..Len(d.melds) : d.melds[k].kind = "chi" => ProperSequence(d.melds[k])

\* the count vector of hand + win tile
InputCounts ==
    CountsOf([k \in 1..(Len(cfg.hand_raw) + 1) |->
                 tile_to_index(IF k <= Len(cfg.hand_raw) THEN cfg.hand_raw[k] ELSE cfg.win_raw).val])

\* C9: every decomposition emitted, with or without fixed melds, has four
\* melds and a pair whose tiles (a kan counting four) add up to the full count
\* vector of the input, and every sequence meld is three consecutive indices
\* of one suit
C9_DecompositionsWellFormed ==
    /\ stage = "decomposed" =>
           \A k \in 1..Len(decomps.val) : WellFormed(decomps.val[k], InputCounts)
    /\ decompsAll.ok =>
           \A k \in 1..Len(decompsAll.val) : WellFormed(decompsAll.val[k], InputCounts)

\* a hand with a declared kan decomposed with a concealed sequence
C9_Witness ==
    /\ stage = "decomposed"
    /\ \E k \in 1..Len(ext.val.fixed_melds) : ext.val.fixed_melds[k].kind = "kan"
    /\ \E j \in 1..Len(decomps.val) : \E k \in 1..4 :
           decomps.val[j].melds[k].kind = "chi" /\ ~decomps.val[j].melds[k].open

\* the melds of a list as a multiset of (kind, tile triple)
MeldBag(ms) ==
    [x \in {<<ms[k].kind, ms[k].tiles>> : k \in 1..Len(ms)} |->
        Cardinality({k \in 1..Len(ms) : <<ms[k].kind, ms[k].tiles>> = x})]

\* a reference partition <<pair, meld codes>> as (pair, multiset of melds)
PartitionBag(pm) ==
    <<pm[1], MeldBag([k \in 1..Len(pm[2]) |->
                         Meld(IF pm[2][k] < 34 THEN "pon" ELSE "chi", FALSE, MeldTiles(pm[2][k]))])>>

\* the engine ran: it returned decompositions or found none
EngineRan ==
    \/ stage = "decomposed"
    \/ /\ stage = "error"
       /\ decomps = Err("Hand is not a winning hand with the provided win_tile.")

\* what is returned for f fixed melds is every partition of c into a pair and
\* 4 - f triplets/sequences, each once
ExactlyThePartitions(found, c, f) ==
    /\ {<<found[k].pair, MeldBag(SubSeq(found[k].melds, f + 1, Len(found[k].melds)))>> :
            k \in 1..Len(found)}
       = {PartitionBag(pm) : pm \in Partitions(c, 4 - f)}
    /\ \A j, k \in 1..Len(found) :
           j # k => <<found[j].pair, MeldBag(found[j].melds)>>
                    # <<found[k].pair, MeldBag(found[k].melds)>>

\* C10: the engine returns exactly the distinct (pair, meld multiset)
\* partitions of its input: every partition into a pair and 4 - |fixed|
\* triplets/sequences is returned, and no two returned decompositions have the
\* same pair and the same multiset of melds
C10_DecompositionsExact ==
    /\ EngineRan =>
           ExactlyThePartitions(IF decomps.ok THEN decomps.val ELSE <<>>,
                                counts_for_decomp(ext.val.full_counts, ext.val.fixed_melds).val,
                                Len(ext.val.fixed_melds))
    /\ decompsAll.ok => ExactlyThePartitions(decompsAll.val, InputCounts, 0)

\* a hand with a fixed meld and more than one partition of the rest
C10_Witness ==
    /\ stage = "decomposed"
    /\ Len(ext.val.fixed_melds) >= 1
    /\ Len(decomps.val) >= 2

(***************************************************************************)
(* Properties of the points estimator                                      *)
(***************************************************************************)
\* the payouts of a PointsResult that are not None
ReportedPayouts(r) ==
    {x[1] : x \in {r.ron_points, r.tsumo_dealer_points, r.tsumo_non_dealer_points,
                   tsumo_total_points(r)} \ {None}}

\* C11: every payout reported by estimate_points and estimate_yakuman_points
\* (ron, tsumo dealer share, tsumo non-dealer share, tsumo total), whenever
\* not None, is a positive integer divisible by 100
C11_PayoutsDivisibleBy100 ==
    pts.ok => \A x \in ReportedPayouts(pts.val) : x > 0 /\ x % 100 = 0

\* a 1 han 30 fu hand: base 240, whose payouts 960, 480 and 240 need rounding
C11_Witness ==
    /\ pts.ok
    /\ pin.fn = "estimate_points"
    /\ pin.han = 1
    /\ pin.fu = 30
    /\ pin.win_type = "both"
    /\ ~pin.is_dealer
    /\ pts.val.ron_points = Some(1000)
    /\ tsumo_total_points(pts.val) = Some(1100)

\* fu x 2^(han+2)
UncappedBase == pin.fu * Pow2(pin.han + 2)

MeetsMangan ==
    \/ pin.han = 5
    \/ (pin.han = 4 /\ pin.fu >= 40)
    \/ (pin.han = 3 /\ pin.fu >= 70)
    \/ UncappedBase >= 2000

\* C12: the base of estimate_points is fu x 2^(han+2) unless a limit applies:
\* 8000 for han >= 13, 6000 for 11-12, 4000 for 8-10, 3000 for 6-7, 2000 for
\* han = 5, han = 4 with fu >= 40, han = 3 with fu >= 70 or an uncapped base
\* of 2000 or more; the base never exceeds 2000 for han <= 5, and limit_name
\* is None exactly when the uncapped base is used
C12_BaseAndLimits ==
    (pts.ok /\ pin.fn = "estimate_points") =>
        /\ base = (IF pin.han >= 13 THEN 8000
                   ELSE IF pin.han >= 11 THEN 6000
                   ELSE IF pin.han >= 8 THEN 4000
                   ELSE IF pin.han >= 6 THEN 3000
                   ELSE IF MeetsMangan THEN 2000
                   ELSE UncappedBase)
        /\ pin.han <= 5 => base <= 2000
        /\ pts.val.limit_name = "None" <=> (pin.han <= 5 /\ ~MeetsMangan)
        /\ pts.val.limit_name = "None" => base = UncappedBase

\* 2 han 130 fu: no han limit, the uncapped base 2080 is cut to 2000
C12_Witness ==
    /\ pts.ok
    /\ pin.fn = "estimate_points"
    /\ pin.han = 2
    /\ UncappedBase > 2000
    /\ base = 2000
    /\ pts.val.limit_name = "Mangan"

\* r is x rounded up to the next 100
RoundedUp(r, x) == r % 100 = 0 /\ r >= x /\ r < x + 100

\* C13 as stated: the ron payment is base x 6 (dealer) or base x 4, the tsumo
\* shares are base x 2 and base x 1, and the tsumo total is base x 6 (dealer) or
\* base x 4, each of these amounts rounded up to the next 100
C13_TotalIsRoundedMultiple ==
    pts.ok =>
        LET r == pts.val
            k == IF pin.is_dealer THEN 6 ELSE 4
        IN  /\ r.ron_points # None => RoundedUp(r.ron_points[1], base * k)
            /\ r.tsumo_dealer_points # None => RoundedUp(r.tsumo_dealer_points[1], base * 2)
            /\ r.tsumo_non_dealer_points # None => RoundedUp(r.tsumo_non_dealer_points[1], base)
            /\ tsumo_total_points(r) # None => RoundedUp(tsumo_total_points(r)[1], base * k)

\* C13 (amended): ron pays base x 6 to a dealer and base x 4 to a non-dealer; on
\* a dealer tsumo each of the three opponents pays base x 2; on a non-dealer
\* tsumo the dealer pays base x 2 and each of the two non-dealers base x 1;
\* each payment is rounded up to the next 100 and the tsumo total is the sum
\* of the three rounded payments
C13_PayoutSplit ==
    pts.ok =>
        LET r == pts.val
            ron == pin.win_type \in {"ron", "both"}
            tsumo == pin.win_type \in {"tsumo", "both"}
        IN  /\ ron => r.ron_points # None
                      /\ RoundedUp(r.ron_points[1], base * (IF pin.is_dealer THEN 6 ELSE 4))
            /\ ~ron => r.ron_points = None
            /\ ~tsumo => /\ r.tsumo_dealer_points = None
                         /\ r.tsumo_non_dealer_points = None
                         /\ tsumo_total_points(r) = None
            /\ (tsumo /\ pin.is_dealer) =>
                   /\ r.tsumo_dealer_points # None
                   /\ RoundedUp(r.tsumo_dealer_points[1], base * 2)
                   /\ r.tsumo_non_dealer_points = None
                   /\ tsumo_total_points(r) = Some(3 * r.tsumo_dealer_points[1])
            /\ (tsumo /\ ~pin.is_dealer) =>
                   /\ r.tsumo_dealer_points # None
                   /\ RoundedUp(r.tsumo_dealer_points[1], base * 2)
                   /\ r.tsumo_non_dealer_points # None
                   /\ RoundedUp(r.tsumo_non_dealer_points[1], base)
                   /\ tsumo_total_points(r)
                          = Some(r.tsumo_dealer_points[1] + 2 * r.tsumo_non_dealer_points[1])

\* a dealer's ron and tsumo on a base that is no multiple of 100
C13_Witness ==
    /\ pts.ok
    /\ pin.fn = "estimate_points"
    /\ pin.is_dealer
    /\ pin.win_type = "both"
    /\ base = 320
    /\ pts.val.ron_points = Some(2000)
    /\ tsumo_total_points(pts.val) = Some(2100)

(***************************************************************************)
(* Properties of the scoring engine                                        *)
(***************************************************************************)
\* the candidate of every decomposition of the standard hand, in the order generated
Candidates ==
    LET x == score_context(cfg, ext.val)
    IN  [k \in 1..Len(decomps.val) |-> candidate(cfg, x, decomps.val[k])]

\* the ron value for a ron, the tsumo total for a tsumo
FinalPayout(sb) ==
    IF sb.win_type = "ron" THEN sb.points.ron_points[1]
    ELSE tsumo_total_points(sb.points)[1]

\* the standard hand was decomposed and a score came back
StandardScored == stage = "decomposed" /\ result.ok

YakuNames(sb) == {sb.yaku[k].name : k \in 1..Len(sb.yaku)}

\* the candidates of the standard decompositions of a hand without fixed melds
StandardReadings ==
    LET x == score_context(cfg, ext.val)
        ds == _decompose_standard_with_fixed_melds(ext.val.full_counts, <<>>, 4)
    IN  [k \in 1..Len(ds) |-> candidate(cfg, x, ds[k])]

\* scenario 4: 2m 2m 3m 3m 4m 4m 5m 5m 6m 6m 7m 7m 8m won by ron on 8m, no
\* furo, seat and round wind E
IsScenario4 ==
    /\ cfg.hand_raw = SevenPairsRunConfig.hand_raw
    /\ cfg.win_raw = SevenPairsRunConfig.win_raw
    /\ cfg.win_type = "ron"
    /\ cfg.furo_sets = 0
    /\ cfg.seat_wind = Tok(27)
    /\ cfg.round_wind = Tok(27)

\* seven distinct pairs
IsSevenPairs(c) == _total_tiles(c) = 14 /\ \A i \in Indices : c[i] \in {0, 2}

\* C15: the score reported is the point-maximising interpretation of the 14
\* tiles, also when the closed hand is both a seven-pairs and a standard
\* agari: no standard reading pays more than the score returned, and scenario
\* 4 is scored with Pinfu and Tanyao among its yaku, fu 30 and no error
C15_PointMaximising ==
    /\ (stage = "chiitoitsu" /\ IsSevenPairs(ext.val.full_counts)) =>
           /\ result.ok
           /\ \A k \in 1..Len(StandardReadings) :
                  StandardReadings[k].ok =>
                      FinalPayout(StandardReadings[k].val) <= FinalPayout(result.val)
    /\ (IsScenario4 /\ stage # "input") =>
           /\ result.ok
           /\ {"Pinfu", "Tanyao"} \subseteq YakuNames(result.val)
           /\ result.val.fu = Some(30)

\* C16: a decomposed hand fails with no-yaku only when none of its
\* decompositions yields a yaku or a yakuman: if one does, a score is
\* returned; if none does, the hand is rejected whatever its dora and aka-dora
C16_NoYakuOnlyWithoutYaku ==
    stage = "decomposed" =>
        IF \E k \in 1..Len(Candidates) : Candidates[k] # NoYaku
        THEN result.ok
        ELSE result = NoYaku

RiichiRequiresClosed == Err("riichi=true is not allowed when the hand is open (furo).")

\* the fixed melds were extracted, there is at least one, and all are concealed kongs
AnkanOnly ==
    /\ ext.ok
    /\ ext.val.fixed_melds # <<>>
    /\ \A k \in 1..Len(ext.val.fixed_melds) :
           ext.val.fixed_melds[k].kind = "kan" /\ ~ext.val.fixed_melds[k].open

\* a score with a yaku list came back for the decomposed hand
YakuScored == StandardScored /\ result.val.yakuman = <<>>

\* C17: riichi on a hand with an open fixed meld (furo_sets >= 1) fails with
\* riichi-requires-closed and gives no score; a hand whose only fixed melds
\* are concealed kongs is closed: riichi is accepted and counted, a tsumo
\* counts Menzen Tsumo and a ron counts the 10 fu of a menzen ron
C17_RiichiRequiresClosed ==
    /\ (ext.ok /\ cfg.riichi /\ cfg.furo_sets >= 1) => result = RiichiRequiresClosed
    /\ AnkanOnly => result # RiichiRequiresClosed
    /\ (AnkanOnly /\ YakuScored) =>
           /\ cfg.riichi => "Riichi" \in YakuNames(result.val)
           /\ cfg.win_type = "tsumo" => "Menzen Tsumo" \in YakuNames(result.val)
           /\ cfg.win_type = "ron" =>
                  \E k \in 1..Len(Candidates) :
                      LET d == decomps.val[k]
                          parts == _pair_fu(d.pair, cfg.seat_wind, cfg.round_wind)
                                       + _meld_fu(d)
                                       + _wait_fu(d, score_context(cfg, ext.val).win_idx)
                      IN  /\ Candidates[k].val = result.val
                          /\ result.val.fu = Some(((20 + 10 + parts + 9) \div 10) * 10)

\* riichi and ron on a hand with one concealed kong, scored
C17_Witness ==
    /\ AnkanOnly
    /\ YakuScored
    /\ cfg.riichi
    /\ cfg.win_type = "ron"
    /\ "Riichi" \in YakuNames(result.val)

\* four kongs are declared and the fixed melds were extracted
FourKongs == ext.ok /\ Len(cfg.ankan_tiles) + Len(cfg.kan_tiles) = 4

\* nothing else is declared, the two tiles left are a pair, and riichi is not
\* declared on open kongs
FourKongsValid ==
    /\ FourKongs
    /\ Len(ext.val.fixed_melds) = 4
    /\ LET left == counts_for_decomp(ext.val.full_counts, ext.val.fixed_melds)
       IN  left.ok /\ \E i \in Indices : left.val = [ZeroCounts EXCEPT ![i] = 2]
    /\ ~(cfg.riichi /\ cfg.furo_sets >= 1)

\* the payout of one yakuman: base 8000
SingleYakumanPayout(p) ==
    /\ p.limit_name = "Yakuman"
    /\ IF cfg.win_type = "ron"
       THEN /\ p.ron_points = Some(IF cfg.is_dealer THEN 48000 ELSE 32000)
            /\ p.tsumo_dealer_points = None
            /\ p.tsumo_non_dealer_points = None
       ELSE /\ p.ron_points = None
            /\ p.tsumo_dealer_points = Some(16000)
            /\ p.tsumo_non_dealer_points = (IF cfg.is_dealer THEN None ELSE Some(8000))
            /\ tsumo_total_points(p) = Some(IF cfg.is_dealer THEN 48000 ELSE 32000)

\* C18: with four declared kongs (ankan_tiles plus kan_tiles) and an input
\* that is otherwise valid, the score has the yakuman list of exactly one
\* Suukantsu with multiplier 1, no yaku, no fu, han 0, dora and aka-dora han 0
\* and the payout of a single yakuman, whatever else the hand holds
C18_FourKongs ==
    /\ FourKongsValid => result.ok
    /\ (FourKongs /\ result.ok) =>
           /\ result.val.yakuman = <<Yakuman("Suukantsu", 1)>>
           /\ result.val.yaku = <<>>
           /\ result.val.fu = None
           /\ result.val.han = 0
           /\ result.val.dora_han = 0
           /\ result.val.aka_dora_han = 0
           /\ SingleYakumanPayout(result.val.points)

\* concealed kongs of the three dragons and of 1m won by tsumo, 1m being dora
C18_Witness ==
    /\ FourKongsValid
    /\ result.ok
    /\ cfg.ankan_tiles = DragonKansConfig.ankan_tiles
    /\ cfg.win_type = "tsumo"
    /\ cfg.dora_raw = <<Tok(0)>>
    /\ result.val.yakuman = <<Yakuman("Suukantsu", 1)>>

\* a token with a red five read as the five of its suit
AsFive(t) == IF Len(t) = 2 /\ t[1] = "0" THEN <<"5", t[2]>> ELSE t

\* hand_tiles and win_tile as given, and the 14 tiles normalised
GivenTiles == Append(cfg.hand_raw, cfg.win_raw)
NormalisedTiles == [k \in 1..Len(GivenTiles) |-> AsFive(GivenTiles[k])]

\* the number of red-five tokens given; the number of the normalised tiles
\* that match the normalised dora set
RedFivesGiven == Cardinality({k \in 1..Len(GivenTiles) : GivenTiles[k][1] = "0"})
DoraMatches ==
    Cardinality({k \in 1..Len(NormalisedTiles) :
                    \E j \in 1..Len(cfg.dora_raw) : AsFive(cfg.dora_raw[j]) = NormalisedTiles[k]})

\* no fixed melds, and the 14 tiles are seven pairs
SevenPairsHand ==
    /\ stage # "input"
    /\ ext.ok
    /\ ext.val.fixed_melds = <<>>
    /\ IsSevenPairs(ext.val.full_counts)

\* C19: a hand without fixed melds whose 14 tiles are seven pairs is scored
\* with the yaku Chiitoitsu (2 han), Riichi (1) iff riichi was declared and
\* Menzen Tsumo (1) iff the win is a tsumo, and no other; fu is 25; han is the
\* yaku han plus dora han plus aka-dora han, aka-dora han being the number of
\* red fives given in hand and win tile and dora han the number of the
\* normalised 14 tiles matching the normalised dora set
C19_SevenPairsBranch ==
    SevenPairsHand =>
        /\ result.ok
        /\ LET r == result.val
               yaku == {r.yaku[k] : k \in 1..Len(r.yaku)}
           IN  /\ yaku = {Yaku("Chiitoitsu", 2)}
                             \cup (IF cfg.riichi THEN {Yaku("Riichi", 1)} ELSE {})
                             \cup (IF cfg.win_type = "tsumo" THEN {Yaku("Menzen Tsumo", 1)} ELSE {})
               /\ Len(r.yaku) = Cardinality(yaku)
               /\ r.yakuman = <<>>
               /\ r.fu = Some(25)
               /\ r.aka_dora_han = RedFivesGiven
               /\ r.dora_han = DoraMatches
               /\ r.han = 2 + (IF cfg.riichi THEN 1 ELSE 0)
                            + (IF cfg.win_type = "tsumo" THEN 1 ELSE 0)
                            + DoraMatches + RedFivesGiven
               /\ r.points.han = r.han
               /\ r.points.fu = 25

\* riichi and tsumo on seven pairs holding 0p 5p with dora 0p: han 4 + 2 + 1
C19_Witness ==
    /\ SevenPairsHand
    /\ result.ok
    /\ cfg.riichi
    /\ cfg.win_type = "tsumo"
    /\ cfg.dora_raw = <<<<"0", "p">>>>
    /\ result.val.aka_dora_han = 1
    /\ result.val.dora_han = 2
    /\ result.val.han = 7

\* +2 for each of: the pair is a dragon, the seat wind, the round wind
StackedPairFu(pair_idx) ==
    LET t == Tok(pair_idx)
    IN  (IF t \in {Tok(31), Tok(32), Tok(33)} THEN 2 ELSE 0)
            + (IF t = cfg.seat_wind THEN 2 ELSE 0)
            + (IF t = cfg.round_wind THEN 2 ELSE 0)

\* C20: the pair-fu of every decomposition scored is +2 for each of the
\* conditions "the pair is a dragon", "the pair is the seat wind", "the pair
\* is the round wind" that holds: 4 for a pair of the wind that is both seat
\* and round wind, 2 for a dragon or a single matching wind, 0 otherwise
C20_PairFuStacks ==
    stage = "decomposed" =>
        \A k \in 1..Len(decomps.val) :
            _pair_fu(decomps.val[k].pair, cfg.seat_wind, cfg.round_wind)
                = StackedPairFu(decomps.val[k].pair)

\* the slot of the winning tile
WinIdx == score_context(cfg, ext.val).win_idx

\* the pair and the melds formed from the concealed tiles: a decomposition
\* lists the fixed melds first
ConcealedPart(d) ==
    Decomposition(d.pair, SubSeq(d.melds, Len(ext.val.fixed_melds) + 1, Len(d.melds)))

\* the wait-fu by how the winning tile completes the concealed part
ConcealedWaitFu(d) == _wait_fu(ConcealedPart(d), WinIdx)

\* 2 for an open triplet of simples, doubled for a closed one, doubled for
\* terminals or honours, four times as much for a kong; 0 for a sequence
TripletFu(m) ==
    IF m.kind = "chi" THEN 0
    ELSE 2 * (IF m.open THEN 1 ELSE 2)
           * (IF m.tiles[1] \in 27..33 \/ m.tiles[1] % 9 \in {0, 8} THEN 2 ELSE 1)
           * (IF m.kind = "kan" THEN 4 ELSE 1)

\* no fixed meld is open
ClosedHand == \A k \in 1..Len(ext.val.fixed_melds) : ~ext.val.fixed_melds[k].open

\* closed, four sequences, a pair that is no dragon, seat wind or round wind,
\* and a wait without wait-fu
PinfuReading(d) ==
    /\ ClosedHand
    /\ \A k \in 1..Len(d.melds) : d.melds[k].kind = "chi"
    /\ StackedPairFu(d.pair) = 0
    /\ ConcealedWaitFu(d) = 0

\* base 20, +10 for a closed ron or +2 for a tsumo, pair-fu, meld-fu and
\* wait-fu, rounded up to the next multiple of 10 and at least 30; 20 for a
\* pinfu tsumo and 30 for a pinfu ron
FuOfReading(d) ==
    IF PinfuReading(d) THEN (IF cfg.win_type = "tsumo" THEN 20 ELSE 30)
    ELSE LET sum == 20 + (IF cfg.win_type = "tsumo" THEN 2 ELSE IF ClosedHand THEN 10 ELSE 0)
                       + StackedPairFu(d.pair)
                       + SumFrom([k \in 0..3 |-> TripletFu(d.melds[k + 1])], 0, 3)
                       + ConcealedWaitFu(d)
         IN  Max2(((sum + 9) \div 10) * 10, 30)

\* C21: the fu reported for a standard hand is that of the decomposition
\* scored: base 20, +10 for a closed ron or +2 for a tsumo, plus pair-fu,
\* meld-fu and wait-fu, rounded up to the next multiple of 10 and at least 30,
\* except 20 for a pinfu tsumo and exactly 30 for a pinfu ron on a closed
\* hand; so it is 20 or a multiple of 10 from 30 on, and below 30 only for a
\* pinfu tsumo
C21_FuOfStandardHand ==
    YakuScored =>
        LET fu == result.val.fu[1]
        IN  /\ \E k \in 1..Len(Candidates) :
                   /\ Candidates[k].ok
                   /\ Candidates[k].val = result.val
                   /\ fu = FuOfReading(decomps.val[k])
            /\ fu = 20 \/ (fu >= 30 /\ fu % 10 = 0)
            /\ fu < 30 => ("Pinfu" \in YakuNames(result.val) /\ cfg.win_type = "tsumo")
            /\ ("Pinfu" \in YakuNames(result.val) /\ cfg.win_type = "ron") => fu = 30

\* the names of the yakuman of a score
YakumanNames(sb) == {sb.yakuman[k].name : k \in 1..Len(sb.yakuman)}

\* C22: no score returned for an input with furo_sets >= 1 lists Chuuren
\* Poutou, Suuankou or Suuankou Tanki among its yakuman
C22_ConcealedYakumanNeedClosedHand ==
    (stage # "input" /\ result.ok /\ cfg.furo_sets >= 1) =>
        YakumanNames(result.val) \cap {"Chuuren Poutou", "Suuankou", "Suuankou Tanki"} = {}

\* the four melds are triplets or kongs
AllTriplets(d) == \A k \in 1..Len(d.melds) : d.melds[k].kind \in {"pon", "kan"}

\* the Four Concealed Triplets yakuman listed in a score
FourConcealedTriplets(sb) ==
    {sb.yakuman[k] : k \in {j \in 1..Len(sb.yakuman) :
                                sb.yakuman[j].name \in {"Suuankou", "Suuankou Tanki"}}}

\* the payout of 8000 x mult: ron 6 or 4 times the base, tsumo 2 times the
\* base from the dealer or to the dealer and the base from the others
YakumanPayout(p, mult) ==
    IF cfg.win_type = "ron"
    THEN /\ p.ron_points = Some(8000 * mult * (IF cfg.is_dealer THEN 6 ELSE 4))
         /\ p.tsumo_dealer_points = None
         /\ p.tsumo_non_dealer_points = None
    ELSE /\ p.ron_points = None
         /\ p.tsumo_dealer_points = Some(16000 * mult)
         /\ p.tsumo_non_dealer_points = (IF cfg.is_dealer THEN None ELSE Some(8000 * mult))

\* what decomposition k is awarded: Suuankou (1) on a tsumo, Suuankou Tanki
\* (2) on a ron completing the pair, neither on a ron completing a triplet;
\* a yakuman score has no yaku, han 0, no dora and the payout of 8000 x the
\* sum of the multipliers
FourTripletsAward(k) ==
    LET d == decomps.val[k]
        c == Candidates[k]
    IN  /\ c.ok
        /\ FourConcealedTriplets(c.val) =
               (IF cfg.win_type = "tsumo" THEN {Yakuman("Suuankou", 1)}
                ELSE IF d.pair = WinIdx THEN {Yakuman("Suuankou Tanki", 2)}
                ELSE {})
        /\ c.val.yakuman # <<>> =>
               /\ c.val.yaku = <<>>
               /\ c.val.han = 0
               /\ c.val.dora_han = 0
               /\ c.val.aka_dora_han = 0
               /\ YakumanPayout(c.val.points, SumField(c.val.yakuman, "multiplier"))
        /\ Len(decomps.val) = 1 => result = c

\* C23 as stated: every decomposition whose four melds are triplets or kongs
\* is awarded Suuankou (multiplier 1) on a tsumo, Suuankou Tanki (multiplier
\* 2) on a ron completing the pair and neither on a ron completing a triplet,
\* and is paid 8000 x the sum of the multipliers without dora
C23_FourTripletsAlwaysAwarded ==
    stage = "decomposed" =>
        \A k \in 1..Len(decomps.val) : AllTriplets(decomps.val[k]) => FourTripletsAward(k)

\* C23 (amended): the same for hands with fewer than four declared kongs
C23_FourConcealedTriplets ==
    (stage = "decomposed" /\ Len(cfg.ankan_tiles) + Len(cfg.kan_tiles) < 4) =>
        \A k \in 1..Len(decomps.val) : AllTriplets(decomps.val[k]) => FourTripletsAward(k)

\* the closed hand of four triplets won by ron on its pair: Suuankou Tanki,
\* 64000 from the discarder
C23_Witness ==
    /\ stage = "decomposed"
    /\ cfg.hand_raw = FourTripletsConfig.hand_raw
    /\ cfg.win_type = "ron"
    /\ ~cfg.is_dealer
    /\ result.ok
    /\ result.val.yakuman = <<Yakuman("Suuankou Tanki", 2)>>
    /\ result.val.points.ron_points = Some(64000)

\* hand_tiles together with win_tile, normalised, hold more than four copies
\* of some tile
OverCounted == _validate_no_more_than_four(NormalisedTiles) # <<>>

\* C24: a call whose hand_tiles and win_tile hold more than four copies of
\* some tile fails and gives no score, and no count vector with an entry
\* above 4 is decomposed or scored
C24_OverCountRejected ==
    /\ (stage # "input" /\ OverCounted) => (stage = "error" /\ ~result.ok)
    /\ stage \in {"decomposed", "chiitoitsu", "kokushi"} =>
           \A i \in Indices : ext.val.full_counts[i] <= 4

\* a meld that is not an open fixed meld
NotOpen(m) == ~m.open

\* the decomposition without its open fixed melds
WithoutOpenMelds(d) == Decomposition(d.pair, SelectSeq(d.melds, NotOpen))

\* some fixed meld of the hand is open
HasOpenMeld == \E k \in 1..Len(ext.val.fixed_melds) : ext.val.fixed_melds[k].open

\* C26: for a hand with open fixed melds, the wait-fu of every decomposition
\* is the wait-fu of that decomposition without its open fixed melds, and
\* Pinfu is listed for it exactly as that wait-fu decides
C26_WaitFuIgnoresOpenMelds ==
    (stage = "decomposed" /\ HasOpenMeld) =>
        \A k \in 1..Len(decomps.val) :
            LET d == decomps.val[k]
                x == score_context(cfg, ext.val)
                yaku == standard_yaku(cfg, x, d)
                wait == _wait_fu(WithoutOpenMelds(d), WinIdx)
            IN  /\ _wait_fu(d, WinIdx) = wait
                /\ (\E j \in 1..Len(yaku) : yaku[j].name = "Pinfu")
                       = (/\ x.is_closed
                          /\ _is_pinfu_candidate(d, cfg.seat_wind, cfg.round_wind)
                          /\ wait = 0)

(***************************************************************************)
(* Properties of the memoised engine                                       *)
(***************************************************************************)
\* the last call evaluated alone, with empty tables
EvaluatedAlone ==
    IF callOp = "shanten_standard" THEN shanten_standard_call(given, {}).val
    ELSE IF callOp = "is_agari_standard" THEN is_agari_standard_call(given, {}).val
    ELSE IF callOp = "tenpai_waits_for_13" THEN tenpai_waits_for_13_call(given, {}).val
    ELSE ret

\* C25: whatever calls came before, shanten_standard, is_agari_standard and
\* tenpai_waits_for_13 return for a count vector what they return for it when
\* evaluated alone with empty lru_cache tables
C25_HistoryIndependent == callOp # "none" => ret = EvaluatedAlone

\* shanten_standard of 1m 2m 3m E E E S S S W W W N answered from the table: 0
C25_Witness ==
    /\ callOp = "shanten_standard"
    /\ given = CountsOf(<<0, 1, 2, 27, 27, 27, 28, 28, 28, 29, 29, 29, 30>>)
    /\ Cached(memoFound.shanten, _make_key(given))
    /\ ret = 0

\* C27: on return from shanten_standard, shanten_chiitoitsu, shanten_kokushi,
\* is_agari_standard and tenpai_waits_for_13 the caller's count vector is
\* element-wise what it was before the call
C27_FrameCondition == callOp # "none" => \A i \in Indices : arg[i] = given[i]

\* shanten_standard returned from its loop over a 14-tile hand
C27_Witness ==
    /\ callOp = "shanten_standard"
    /\ _total_tiles(given) = 14
    /\ memoShanten # memoFound.shanten
    /\ arg = given

====
